---- MODULE Spec2Model ----
(***************************************************************************)
(* Bulk token distribution: the off-chain transfer driver                  *)
(* (scripts/helpers/transferHelpers.ts, scripts/helpers/contractHelpers.ts *)
(* and the earlier driver kept in the repository) running against the      *)
(* BulkSender contract and an ERC20 token.                                  *)
(***************************************************************************)
EXTENDS Integers, Sequences, FiniteSets, TLC

\* ------------------------------------------------------------------ bounds
MaxEntries == 2       \* longest recipient list drawn as input
MaxAmount == 2        \* largest amount of one row
MaxBalance == 3       \* largest initial token balance of the sender
MaxAllowance == 1     \* largest initial allowance sender -> BulkSender
MaxEnv == 1           \* number of steps other accounts take during one run
SampledBatchLen == 11 \* length of the batch of the run with two samples
MaxBatchChecked == 210 \* longest batch whose sample count is computed
MaxArray == 4         \* longest array given to createBatches on its own
MaxRows == 2          \* most rows of recipients.csv given to the reconciliation
MaxSnapshot == 1      \* largest balance of the start snapshot
MaxList == 3          \* longest recipient list sent batch by batch
MaxChars == 3         \* longest free-form amount string given to parseWeiAmount
MaxSpin == 2          \* iterations of createBatches followed beyond the array length

\* ------------------------------------------------------- program constants
DefaultRecipientLimit == 200   \* BulkSender.recipientLimit
MaxSamples == 10               \* prepareVerificationData: at most 10 samples
LegacySamples == 3             \* earlier verifyBatchTransfers: Math.min(3, n)
TestSamples == 5               \* verifyRandomSamples: Math.min(5, n)

\* --------------------------------------------------------------- addresses
Sender == "sender"
BulkSender == "bulkSender"
ZeroAddress == "0x0"
Token == "token"
Recipients == {"r1", "r2"}
Holders == {Sender, BulkSender} \cup Recipients

Drivers == {"transferHelpers", "part_001"}

VARIABLES
  \* chain
  bal,            \* token balance of every holder
  allow,          \* allowance[Sender][BulkSender]
  paused,         \* BulkSender (Pausable) paused flag
  recipientLimit, \* BulkSender.recipientLimit
  standardToken,  \* TRUE: the token is a standard ERC20
  writes,         \* transactions the sender has issued, in nonce order
  receipts,       \* status of the mined prefix of writes
  envActs,        \* steps taken so far by the other accounts
  \* driver
  driver,         \* which processSingleBatch is run
  batches,        \* argument of processTransferBatches
  pc,             \* position of the run
  currentAllowance, \* checkTokenAllowance: first allowance read
  batchNumber,    \* i + 1 of the loop in processTransferBatches (0 before it)
  selected,       \* prepareVerificationData: selectedIndexes in insertion order
  verificationData, \* VerificationEntry[]
  j,              \* position in the current read loop
  gasEstimate,    \* "none" or "estimated"
  observed,       \* nonces whose receipt the run has waited for
  verified,       \* batch numbers whose post-phase verification passed
  failedBatch,    \* batch number logged by the failing catch block (0: guard)
  failedStep,     \* position at which the error was thrown
  error,          \* message of the error that ended the run
  startBal,       \* balances when the run started
  \* createBatches run on its own
  arrayArg,       \* createBatches: the array argument
  batchSizeArg,   \* createBatches: the batchSize argument
  loopIndex,      \* createBatches: the loop variable i
  \* the reconciliation script
  startFile,      \* records of start_balances_soneium.csv
  endFile,        \* records of end.csv
  recipientsFile, \* records of recipients.csv
  startBalances,  \* Map built by loadStartBalances
  endBalances,    \* Map built by loadEndBalances
  recipientMap,   \* Map built by loadRecipients
  results,        \* VerificationResult[] of verifyTransfers
  report,         \* figures printed by generateReport
  filesPresent,   \* which of the three CSV files exist
  outputFile,     \* records of transfer_verification_results.json
  exitCode,       \* <<>> while the script runs, then <<code>>
  \* BulkSender called directly
  callArgs,       \* arguments of the last bulkSendERC20Different call
  callResult,     \* its revert reason, "" when it succeeded
  before,         \* balances and allowance when it was made
  initialBalances, totalTransferred, \* Map filled by storeInitialBalances
  \* loadCSVData run on its own
  csvRows,        \* rows Papa.parse returns for the CSV file
  csvPresent,     \* fs.existsSync(csvPath)
  rpcCalls,       \* requests main has sent to the node
  loaded,         \* <<>> before the load, then <<outcome>>
  \* parseWeiAmount run on its own
  amountString,   \* the argument
  parsed,         \* <<>> before the call, then <<outcome>>
  \* verifyBalancesInBatches of the balance-checking script
  csvEntries,     \* entries, the rows of the CSV file
  checkBatchSize, \* its batchSize argument
  batchIndex,     \* the loop variable over the batches
  promises,       \* batchPromises of the batch in flight
  readLog,        \* the reads that have returned or thrown, in that order
  balanceResults  \* results

chainVars == <<bal, allow, paused, recipientLimit, standardToken, writes, receipts, envActs>>
driverVars == <<driver, batches, pc, currentAllowance, batchNumber, selected,
                verificationData, j, gasEstimate, observed, verified, failedBatch,
                failedStep, error, startBal>>
batchVars == <<arrayArg, batchSizeArg, loopIndex>>
reconcileVars == <<startFile, endFile, recipientsFile, startBalances, endBalances,
                   recipientMap, results, report, filesPresent, outputFile, exitCode>>
contractVars == <<callArgs, callResult, before, initialBalances, totalTransferred>>
loaderVars == <<csvRows, csvPresent, rpcCalls, loaded>>
parseVars == <<amountString, parsed>>
checkVars == <<csvEntries, checkBatchSize, batchIndex, promises, readLog, balanceResults>>
toolVars == <<batchVars, reconcileVars, contractVars, loaderVars, parseVars, checkVars>>
vars == <<chainVars, driverVars, toolVars>>

\* ----------------------------------------------------------------- helpers
RECURSIVE SumAmounts(_)
SumAmounts(s) == IF s = <<>> THEN 0 ELSE Head(s) + SumAmounts(Tail(s))

RECURSIVE Flat(_)
Flat(bs) == IF bs = <<>> THEN <<>> ELSE Head(bs) \o Flat(Tail(bs))

Min(a, b) == IF a < b THEN a ELSE b
Max(a, b) == IF a > b THEN a ELSE b

AddressesOf(batch) == [k \in 1..Len(batch) |-> batch[k].address]
AmountsOf(batch) == [k \in 1..Len(batch) |-> batch[k].amount]

\* the slice takes one element more than batchSize
SliceInclusive(array, i, n) == SubSeq(array, i + 1, Min(i + n + 1, Len(array)))

\* array.slice(i, i + batchSize) with 0-based i
Slice(array, i, n) == SubSeq(array, i + 1, Min(i + n, Len(array)))

RECURSIVE createBatchesFrom(_, _, _)
createBatchesFrom(array, batchSize, i) ==
  IF i < Len(array)
  THEN <<Slice(array, i, batchSize)>> \o createBatchesFrom(array, batchSize, i + batchSize)
  ELSE <<>>

\* the slices are cut one element longer than batchSize
createBatchesOversized(array, batchSize) == createBatchesFrom(array, batchSize + 1, 0)

createBatches(array, batchSize) == createBatchesFrom(array, batchSize, 0)

\* only the amounts of the first batch are added up
totalAmountFirstBatchOnly ==
  IF batches = <<>> THEN 0 ELSE SumAmounts(AmountsOf(batches[1]))

\* processTransferBatches: batches.flat().reduce((sum, e) => sum + e.amount, 0n)
totalAmount == SumAmounts(AmountsOf(Flat(batches)))

\* ------------------------------------------------- BulkSender (Solidity)
\* The first require of bulkSendERC20Different that fails for msg.sender =
\* Sender in the current chain state, "" when the call succeeds.  The order is
\* the order of execution: whenNotPaused, validArrayLength, the body's
\* requires, _validateERC20Transfer, then the distribution loop.
validateERC20TransferAllowanceFirst(token, total) ==
  IF ~(allow >= total) THEN "BulkSender: Insufficient allowance"
  ELSE IF ~(bal[Sender] >= total) THEN "BulkSender: Insufficient balance"
  ELSE IF token = ZeroAddress THEN "BulkSender: Invalid token address"
  ELSE IF ~(total > 0) THEN "BulkSender: Total amount must be greater than 0"
  ELSE ""

validateERC20Transfer(token, total) ==
  IF token = ZeroAddress THEN "BulkSender: Invalid token address"
  ELSE IF ~(total > 0) THEN "BulkSender: Total amount must be greater than 0"
  ELSE IF ~(allow >= total) THEN "BulkSender: Insufficient allowance"
  ELSE IF ~(bal[Sender] >= total) THEN "BulkSender: Insufficient balance"
  ELSE ""

\* only the empty array is rejected
validArrayLengthUnlimited(length) ==
  IF ~(length > 0) THEN "BulkSender: Empty array"
  ELSE ""

validArrayLength(length) ==
  IF ~(length > 0) THEN "BulkSender: Empty array"
  ELSE IF ~(length <= recipientLimit) THEN "BulkSender: Exceeds recipient limit"
  ELSE ""

bulkSendERC20DifferentRevert(token, recipients, amounts) ==
  IF paused THEN "EnforcedPause"
  ELSE IF validArrayLength(Len(recipients)) # "" THEN validArrayLength(Len(recipients))
  ELSE IF Len(recipients) # Len(amounts) THEN "BulkSender: Array length mismatch"
  ELSE IF \E k \in 1..Len(amounts) : ~(amounts[k] > 0)
       THEN "BulkSender: Amount must be greater than 0"
  ELSE IF validateERC20Transfer(token, SumAmounts(amounts)) # ""
       THEN validateERC20Transfer(token, SumAmounts(amounts))
  ELSE IF \E k \in 1..Len(recipients) : recipients[k] = ZeroAddress
       THEN "BulkSender: Invalid recipient"
  ELSE ""

\* safeTransfer(recipients[k], amounts[k]) for k = from..Len, out of BulkSender
RECURSIVE Distribute(_, _, _, _)
Distribute(b, recipients, amounts, from) ==
  IF from > Len(recipients) THEN b
  ELSE Distribute([b EXCEPT ![BulkSender] = @ - amounts[from],
                            ![recipients[from]] = @ + amounts[from]],
                  recipients, amounts, from + 1)

\* every recipient is credited only the last amount listed for it
bulkSendERC20DifferentBalancesLastOnly(recipients, amounts) ==
  [h \in Holders |->
     IF h = Sender THEN bal[h] - SumAmounts(amounts)
     ELSE IF \E k \in 1..Len(recipients) : recipients[k] = h
          THEN bal[h] + amounts[CHOOSE k \in 1..Len(recipients) :
                                  /\ recipients[k] = h
                                  /\ \A m \in (k + 1)..Len(recipients) : recipients[m] # h]
          ELSE bal[h]]

\* balances after a successful bulkSendERC20Different: safeTransferFrom of the
\* total into the contract, then the distribution loop
bulkSendERC20DifferentBalances(recipients, amounts) ==
  Distribute([bal EXCEPT ![Sender] = @ - SumAmounts(amounts),
                         ![BulkSender] = @ + SumAmounts(amounts)],
             recipients, amounts, 1)

\* ------------------------------------------------------------ transactions
ApproveTx(amount) ==
  [kind |-> "approve", amount |-> amount, batch |-> 0, recipients |-> <<>>, amounts |-> <<>>]
BulkTx(k, recipients, amounts) ==
  [kind |-> "bulk", amount |-> 0, batch |-> k, recipients |-> recipients, amounts |-> amounts]

Mined(nonce) == nonce <= Len(receipts)

\* the chain includes the sender's next pending transaction in a block
MineApprove(tx) ==
  /\ tx.kind = "approve"
  /\ \E outcome \in (IF standardToken THEN {"success"} ELSE {"success", "reverted", "ignored"}) :
       /\ allow' = IF outcome = "success" THEN tx.amount ELSE allow
       /\ receipts' = Append(receipts, IF outcome = "reverted" THEN "reverted" ELSE "success")
  /\ UNCHANGED bal

MineBulk(tx) ==
  /\ tx.kind = "bulk"
  /\ LET reason == bulkSendERC20DifferentRevert(Token, tx.recipients, tx.amounts)
     IN IF reason = ""
        THEN /\ bal' = bulkSendERC20DifferentBalances(tx.recipients, tx.amounts)
             /\ allow' = allow - SumAmounts(tx.amounts)
             /\ receipts' = Append(receipts, "success")
        ELSE /\ UNCHANGED <<bal, allow>>
             /\ receipts' = Append(receipts, "reverted")

Mine ==
  /\ Len(receipts) < Len(writes)
  /\ LET tx == writes[Len(receipts) + 1] IN MineApprove(tx) \/ MineBulk(tx)
  /\ UNCHANGED <<paused, recipientLimit, standardToken, writes, envActs, driverVars, toolVars>>

\* the run has not returned or thrown yet
Running == pc \notin {"done", "failed"}

\* the owner of BulkSender pauses or unpauses it
setPaused(p) ==
  /\ Running
  /\ envActs < MaxEnv
  /\ paused # p            \* _pause is whenNotPaused, _unpause is whenPaused
  /\ paused' = p
  /\ envActs' = envActs + 1
  /\ UNCHANGED <<bal, allow, recipientLimit, standardToken, writes, receipts, driverVars, toolVars>>

\* another account transfers tokens to a recipient
ThirdPartyTransfer(r, amount) ==
  /\ Running
  /\ envActs < MaxEnv
  /\ bal' = [bal EXCEPT ![r] = @ + amount]
  /\ envActs' = envActs + 1
  /\ UNCHANGED <<allow, paused, recipientLimit, standardToken, writes, receipts, driverVars, toolVars>>

\* ------------------------------------------- contractHelpers.ts: the guard
\* throw: the run ends; k is the batch number the catch block of
\* processSingleBatch logs (0 when the error is raised outside a batch)
Fail(k, message) ==
  /\ pc' = "failed"
  /\ failedBatch' = k
  /\ failedStep' = pc
  /\ error' = message

\* tokenContract.write.approve / bulkSenderContract.write...: hand a
\* transaction to the node; its hash is its position in writes
Write(tx) == writes' = Append(writes, tx)

\* the comparison lets a balance one short of the total pass
InsufficientBalanceOffByOne(balance, requiredAmount) == balance + 1 < requiredAmount

\* checkTokenBalance: balance < requiredAmount throws
InsufficientBalance(balance, requiredAmount) == balance < requiredAmount

checkTokenBalance ==
  /\ pc = "checkTokenBalance"
  /\ IF InsufficientBalance(bal[Sender], totalAmount)
     THEN Fail(0, "Insufficient token balance")
     ELSE pc' = "checkTokenAllowance" /\ UNCHANGED <<failedBatch, failedStep, error>>
  /\ UNCHANGED <<chainVars, toolVars, driver, batches, startBal, currentAllowance, batchNumber, selected,
                 verificationData, j, gasEstimate, observed, verified>>

\* the reset to 0 of an existing allowance is skipped
AllowanceBranchNoReset(current, requiredAmount) ==
  IF current < requiredAmount THEN "writeApprove" ELSE "nextBatch"

\* checkTokenAllowance after its first read: where it goes next
AllowanceBranch(current, requiredAmount) ==
  IF current < requiredAmount
  THEN IF current > 0 THEN "writeReset" ELSE "writeApprove"
  ELSE "nextBatch"

readAllowance ==
  /\ pc = "checkTokenAllowance"
  /\ currentAllowance' = allow
  /\ pc' = AllowanceBranch(allow, totalAmount)
  /\ UNCHANGED <<chainVars, toolVars, driver, batches, startBal, batchNumber, selected, verificationData, j,
                 gasEstimate, observed, verified, failedBatch, failedStep, error>>

writeReset ==
  /\ pc = "writeReset"
  /\ Write(ApproveTx(0))
  /\ pc' = "waitReset"
  /\ UNCHANGED <<bal, allow, paused, recipientLimit, standardToken, receipts, envActs,
                 toolVars, driver, batches, startBal, currentAllowance, batchNumber, selected, verificationData,
                 j, gasEstimate, observed, verified, failedBatch, failedStep, error>>

\* the receipt's status is not looked at
AfterReceiptIgnoringStatus(status, next) == next

\* waitForTransactionConfirmation(hash), then the caller's next position
AfterReceipt(status, next) == IF status = "reverted" THEN "failed" ELSE next

waitForTransactionConfirmation(at, next) ==
  /\ pc = at
  /\ Mined(Len(writes))                     \* the receipt of the last write exists
  /\ observed' = observed \cup {Len(writes)}
  /\ IF AfterReceipt(receipts[Len(writes)], next) = "failed"
     THEN Fail(0, "Transaction was reverted")
     ELSE pc' = next /\ UNCHANGED <<failedBatch, failedStep, error>>
  /\ UNCHANGED <<chainVars, toolVars, driver, batches, startBal, currentAllowance, batchNumber, selected,
                 verificationData, j, gasEstimate, verified>>

waitReset == waitForTransactionConfirmation("waitReset", "writeApprove")

writeApprove ==
  /\ pc = "writeApprove"
  /\ Write(ApproveTx(totalAmount))
  /\ pc' = "waitApprove"
  /\ UNCHANGED <<bal, allow, paused, recipientLimit, standardToken, receipts, envActs,
                 toolVars, driver, batches, startBal, currentAllowance, batchNumber, selected, verificationData,
                 j, gasEstimate, observed, verified, failedBatch, failedStep, error>>

waitApprove == waitForTransactionConfirmation("waitApprove", "rereadAllowance")

\* the re-read allowance is not compared with the required total
ApprovalFailedNever(newAllowance, requiredAmount) == FALSE

\* newAllowance < requiredAmount throws
ApprovalFailed(newAllowance, requiredAmount) == newAllowance < requiredAmount

rereadAllowance ==
  /\ pc = "rereadAllowance"
  /\ IF ApprovalFailed(allow, totalAmount)
     THEN Fail(0, "Approval failed")
     ELSE pc' = "nextBatch" /\ UNCHANGED <<failedBatch, failedStep, error>>
  /\ UNCHANGED <<chainVars, toolVars, driver, batches, startBal, currentAllowance, batchNumber, selected,
                 verificationData, j, gasEstimate, observed, verified>>

\* ------------------------------------ transferHelpers.ts: the batch driver
recipients == AddressesOf(batches[batchNumber])
amounts == AmountsOf(batches[batchNumber])

\* prepareVerificationData: Math.max(1, Math.min(Math.ceil(n * 0.1), 10))
samplesToCheck(n) == Max(1, Min((n + 9) \div 10, MaxSamples))

\* Set.prototype.add on a Set kept as the sequence of its insertion order
\* without the membership test: a repeated value is stored again
SetAddRepeating(set, value) == Append(set, value)

\* Set.prototype.add on a Set kept as the sequence of its insertion order
SetAdd(set, value) ==
  IF \E e \in 1..Len(set) : set[e] = value THEN set ELSE Append(set, value)

\* the initial balances are not read before the simulation
BatchEntrySimulateFirst(d) == "simulate"

\* first position of processSingleBatch
BatchEntry(d) == IF d = "transferHelpers" THEN "select" ELSE "simulate"

\* for (let i = 0; i < batches.length; i++) await processSingleBatch(.., i + 1),
\* up to the selection loop of prepareVerificationData
nextBatch ==
  /\ pc = "nextBatch"
  /\ IF batchNumber < Len(batches)
     THEN /\ batchNumber' = batchNumber + 1
          /\ pc' = BatchEntry(driver)
          /\ verificationData' = <<>>
          /\ j' = 0
          /\ gasEstimate' = "none"
          /\ selected' = <<>>
     ELSE /\ pc' = "done"
          /\ UNCHANGED <<batchNumber, verificationData, j, gasEstimate, selected>>
  /\ UNCHANGED <<chainVars, toolVars, driver, batches, startBal, currentAllowance, observed, verified,
                 failedBatch, failedStep, error>>

\* one pass of while (selectedIndexes.size < samplesToCheck): randomIndex is
\* Math.floor(Math.random() * recipients.length), an index of 0..length-1
selectIndex ==
  /\ pc = "select"
  /\ \E randomIndex \in 0..(Len(recipients) - 1) :
       /\ selected' = SetAdd(selected, randomIndex)
       /\ pc' = IF Len(selected') < samplesToCheck(Len(recipients))
                THEN "select" ELSE "prepareRead"
  /\ UNCHANGED <<chainVars, toolVars, driver, batches, startBal, currentAllowance, batchNumber,
                 verificationData, j, gasEstimate, observed, verified, failedBatch,
                 failedStep, error>>

\* the entry pushed for a 0-based index of the batch
VerificationEntry(index) ==
  [address |-> recipients[index + 1],
   expectedAmount |-> amounts[index + 1],
   initialBalance |-> bal[recipients[index + 1]]]

\* prepareVerificationData: one balanceOf read per selected index
prepareRead ==
  /\ pc = "prepareRead"
  /\ verificationData' = Append(verificationData, VerificationEntry(selected[j + 1]))
  /\ j' = j + 1
  /\ pc' = IF j + 1 = Len(selected) THEN "simulate" ELSE "prepareRead"
  /\ UNCHANGED <<chainVars, toolVars, driver, batches, startBal, currentAllowance, batchNumber, selected,
                 gasEstimate, observed, verified, failedBatch, failedStep, error>>

\* the catch block logs and does not rethrow: the loop goes on
RethrowSwallowed(k, message) ==
  /\ pc' = "nextBatch"
  /\ UNCHANGED <<failedBatch, failedStep, error>>

\* the catch block of processSingleBatch: log the batch number, rethrow
Rethrow(k, message) == Fail(k, message)

\* bulkSenderContract.simulate.bulkSendERC20Different(...)
simulate ==
  /\ pc = "simulate"
  /\ LET reason == bulkSendERC20DifferentRevert(Token, recipients, amounts)
     IN IF reason # ""
        THEN Rethrow(batchNumber, reason)
        ELSE pc' = "estimateGas" /\ UNCHANGED <<failedBatch, failedStep, error>>
  /\ UNCHANGED <<chainVars, toolVars, driver, batches, startBal, currentAllowance, batchNumber, selected,
                 verificationData, j, gasEstimate, observed, verified>>

\* position after a successful estimate: the write is commented out in
\* transferHelpers.ts, the earlier driver submits
AfterEstimate(d) == IF d = "transferHelpers" THEN "verify" ELSE "submit"

\* bulkSenderContract.estimateGas.bulkSendERC20Different(...), inside the try
estimateGas ==
  /\ pc = "estimateGas"
  /\ LET reason == bulkSendERC20DifferentRevert(Token, recipients, amounts)
     IN IF reason # ""
        THEN Rethrow(batchNumber, reason) /\ UNCHANGED <<gasEstimate, j>>
        ELSE /\ gasEstimate' = "estimated"
             /\ pc' = AfterEstimate(driver)
             /\ j' = 0
             /\ UNCHANGED <<failedBatch, failedStep, error>>
  /\ UNCHANGED <<chainVars, toolVars, driver, batches, startBal, currentAllowance, batchNumber, selected,
                 verificationData, observed, verified>>

\* earlier driver: write.bulkSendERC20Different(..., gas: estimate + 10%);
\* the hash is logged and the receipt is never awaited
submit ==
  /\ pc = "submit"
  /\ Write(BulkTx(batchNumber, recipients, amounts))
  /\ pc' = "legacyVerify"
  /\ j' = 0
  /\ UNCHANGED <<bal, allow, paused, recipientLimit, standardToken, receipts, envActs,
                 toolVars, driver, batches, startBal, currentAllowance, batchNumber, selected, verificationData,
                 gasEstimate, observed, verified, failedBatch, failedStep, error>>

\* an increase of at least the expected amount is accepted
MatchesAtLeast(entry, currentBalance) ==
  currentBalance - entry.initialBalance >= entry.expectedAmount

\* verifyBatchTransfers: actualIncrease === entry.expectedAmount
Matches(entry, currentBalance) ==
  currentBalance - entry.initialBalance = entry.expectedAmount

\* verifyBatchTransfers of transferHelpers.ts: one balanceOf read per entry
verifyRead ==
  /\ pc = "verify"
  /\ LET entry == verificationData[j + 1]
     IN IF Matches(entry, bal[entry.address])
        THEN /\ j' = j + 1
             /\ IF j + 1 = Len(verificationData)
                THEN pc' = "nextBatch" /\ verified' = verified \cup {batchNumber}
                ELSE UNCHANGED <<pc, verified>>
             /\ UNCHANGED <<failedBatch, failedStep, error>>
        ELSE /\ Rethrow(batchNumber, "Transfer verification failed")
             /\ UNCHANGED <<j, verified>>
  /\ UNCHANGED <<chainVars, toolVars, driver, batches, startBal, currentAllowance, batchNumber, selected,
                 verificationData, gasEstimate, observed>>

\* verifyBatchTransfers of the earlier driver: Math.min(3, n) reads that are
\* only logged
legacyVerifyRead ==
  /\ pc = "legacyVerify"
  /\ j' = j + 1
  /\ IF j + 1 = Min(LegacySamples, Len(recipients))
     THEN pc' = "nextBatch" /\ verified' = verified \cup {batchNumber}
     ELSE UNCHANGED <<pc, verified>>
  /\ UNCHANGED <<chainVars, toolVars, driver, batches, startBal, currentAllowance, batchNumber, selected,
                 verificationData, gasEstimate, observed, failedBatch, failedStep, error>>

\* ------------------------------------------------------------ specification
\* createBatches and the reconciliation script are not running
BatchesIdle == arrayArg = <<>> /\ batchSizeArg = 1 /\ loopIndex = 0

ReconcileIdle ==
  /\ startFile = <<>> /\ endFile = <<>> /\ recipientsFile = <<>>
  /\ startBalances = <<>> /\ endBalances = <<>> /\ recipientMap = <<>>
  /\ results = <<>> /\ report = <<>>
  /\ filesPresent = {} /\ outputFile = <<>> /\ exitCode = <<>>

\* BulkSender is not called directly, loadCSVData and parseWeiAmount are not
\* run on their own
ContractIdle ==
  /\ callArgs = <<>> /\ callResult = "" /\ before = <<>> /\ initialBalances = <<>>
  /\ totalTransferred = <<>>

LoaderIdle == csvRows = <<>> /\ csvPresent = FALSE /\ rpcCalls = 0 /\ loaded = <<>>

ParseIdle == amountString = <<>> /\ parsed = <<>>
CheckIdle ==
  /\ csvEntries = <<>> /\ checkBatchSize = 1 /\ batchIndex = 0 /\ promises = <<>>
  /\ readLog = <<>> /\ balanceResults = <<>>

OthersIdle == ContractIdle /\ LoaderIdle /\ ParseIdle /\ CheckIdle

TransferData == [address : Recipients, amount : 1..MaxAmount]

CsvData == UNION {[1..n -> TransferData] : n \in 0..MaxEntries}

Init ==
  /\ \E b \in 0..MaxBalance : bal = [h \in Holders |-> IF h = Sender THEN b ELSE 0]
  /\ startBal = bal
  /\ allow \in 0..MaxAllowance
  /\ paused = FALSE
  /\ recipientLimit = DefaultRecipientLimit
  /\ standardToken \in BOOLEAN
  /\ writes = <<>>
  /\ receipts = <<>>
  /\ envActs = 0
  /\ driver \in Drivers
  /\ \E csvData \in CsvData, batchSize \in 1..MaxEntries :
       batches = createBatches(csvData, batchSize)
  /\ pc = "checkTokenBalance"
  /\ currentAllowance = 0
  /\ batchNumber = 0
  /\ selected = <<>>
  /\ verificationData = <<>>
  /\ j = 0
  /\ gasEstimate = "none"
  /\ observed = {}
  /\ verified = {}
  /\ failedBatch = 0
  /\ failedStep = ""
  /\ error = ""
  /\ BatchesIdle /\ ReconcileIdle /\ OthersIdle

\* a recipient list of one batch long enough for prepareVerificationData to
\* select two indexes; the addresses repeat, as they may in the CSV
SampledCsv(a) ==
  [i \in 1..SampledBatchLen |->
     [address |-> IF i % 2 = 1 THEN "r1" ELSE "r2", amount |-> a]]

InitSampled ==
  /\ \E a \in 1..MaxAmount : batches = createBatches(SampledCsv(a), SampledBatchLen)
  /\ \E b \in {totalAmount - 1, totalAmount} :
       bal = [h \in Holders |-> IF h = Sender THEN b ELSE 0]
  /\ startBal = bal
  /\ allow \in 0..MaxAllowance
  /\ paused = FALSE
  /\ recipientLimit = DefaultRecipientLimit
  /\ standardToken \in BOOLEAN
  /\ writes = <<>>
  /\ receipts = <<>>
  /\ envActs = 0
  /\ driver \in Drivers
  /\ pc = "checkTokenBalance"
  /\ currentAllowance = 0
  /\ batchNumber = 0
  /\ selected = <<>>
  /\ verificationData = <<>>
  /\ j = 0
  /\ gasEstimate = "none"
  /\ observed = {}
  /\ verified = {}
  /\ failedBatch = 0
  /\ failedStep = ""
  /\ error = ""
  /\ BatchesIdle /\ ReconcileIdle /\ OthersIdle

\* the transfer driver is not running
DriverIdle ==
  /\ bal = [h \in Holders |-> 0]
  /\ startBal = bal
  /\ allow = 0
  /\ paused = FALSE
  /\ recipientLimit = DefaultRecipientLimit
  /\ standardToken = TRUE
  /\ writes = <<>>
  /\ receipts = <<>>
  /\ envActs = 0
  /\ driver = "transferHelpers"
  /\ currentAllowance = 0
  /\ batchNumber = 0
  /\ selected = <<>>
  /\ verificationData = <<>>
  /\ j = 0
  /\ gasEstimate = "none"
  /\ observed = {}
  /\ verified = {}
  /\ failedBatch = 0
  /\ failedStep = ""
  /\ error = ""

\* createBatches called on its own, as main calls it, for every array of up
\* to MaxArray rows and every batchSize from 1 to one more than the longest
ArrayInputs == UNION {[1..n -> TransferData] : n \in 0..MaxArray}

InitBatches ==
  /\ arrayArg \in ArrayInputs
  /\ batchSizeArg \in 1..(MaxArray + 1)
  /\ loopIndex = 0
  /\ batches = <<>>
  /\ pc = "createBatches"
  /\ DriverIdle /\ ReconcileIdle /\ OthersIdle

\* const batches = createBatches(csvData, config.batchSize)
callCreateBatches ==
  /\ pc = "createBatches"
  /\ batches' = createBatches(arrayArg, batchSizeArg)
  /\ pc' = "returned"
  /\ UNCHANGED <<chainVars, toolVars, driver, startBal, currentAllowance, batchNumber,
                 selected, verificationData, j, gasEstimate, observed, verified,
                 failedBatch, failedStep, error>>

NextBatches == callCreateBatches

SpecBatches == InitBatches /\ [][NextBatches]_vars

\* ------------------------------------------------ the reconciliation script
\* the string is left as it is written
toLowerCaseKeepingCase(address) == address

\* String.prototype.toLowerCase on the addresses in use
toLowerCase(address) ==
  CASE address = "0xA" -> "0xa"
    [] address = "0xC" -> "0xc"
    [] OTHER -> address

\* a Map is kept as the sequence of its entries in insertion order; the
\* result of Map.get is <<value>>, or <<>> for undefined
MapHas(map, key) == \E n \in 1..Len(map) : map[n].key = key

MapGet(map, key) ==
  IF MapHas(map, key)
  THEN <<map[CHOOSE n \in 1..Len(map) : map[n].key = key].value>>
  ELSE <<>>

\* Map.prototype.set: a key already present keeps its place and takes the
\* new value
MapSet(map, key, value) ==
  IF MapHas(map, key)
  THEN [n \in 1..Len(map) |->
          IF map[n].key = key THEN [key |-> key, value |-> value] ELSE map[n]]
  ELSE Append(map, [key |-> key, value |-> value])

\* x || 0n
OrZero(x) == IF x = <<>> THEN 0 ELSE x[1]

\* for (const record of records) map.set(record[0].toLowerCase(), BigInt(record[1]))
RECURSIVE loadRecords(_, _)
loadRecords(records, map) ==
  IF records = <<>> THEN map
  ELSE loadRecords(Tail(records),
                   MapSet(map, toLowerCase(Head(records).address), Head(records).value))

loadStartBalances(file) == loadRecords(file, <<>>)

\* from_line: 2 skips the header line
loadEndBalances(file) == loadRecords(IF file = <<>> THEN <<>> ELSE Tail(file), <<>>)

loadRecipients(file) == loadRecords(file, <<>>)

\* the difference is reported without its sign
VerificationResultUnsigned(address, expectedAmount, start, end) ==
  LET startBalance == OrZero(MapGet(start, address))
      endBalance == OrZero(MapGet(end, address))
      calculatedEnd == startBalance + expectedAmount
      matches == endBalance = calculatedEnd
  IN [address |-> address, startBalance |-> startBalance,
      expectedAmount |-> expectedAmount, endBalance |-> endBalance,
      calculatedEnd |-> calculatedEnd, matches |-> matches,
      difference |-> IF matches THEN <<>>
                     ELSE IF endBalance > calculatedEnd
                          THEN <<endBalance - calculatedEnd>>
                          ELSE <<calculatedEnd - endBalance>>]

\* the body of the loop of verifyTransfers
VerificationResult(address, expectedAmount, start, end) ==
  LET startBalance == OrZero(MapGet(start, address))
      endBalance == OrZero(MapGet(end, address))
      calculatedEnd == startBalance + expectedAmount
      matches == endBalance = calculatedEnd
  IN [address |-> address, startBalance |-> startBalance,
      expectedAmount |-> expectedAmount, endBalance |-> endBalance,
      calculatedEnd |-> calculatedEnd, matches |-> matches,
      difference |-> IF matches THEN <<>> ELSE <<endBalance - calculatedEnd>>]

\* the entries of the recipients Map are visited last to first
verifyTransfersReversed(start, end, expected) ==
  [n \in 1..Len(expected) |->
     VerificationResult(expected[Len(expected) + 1 - n].key,
                        expected[Len(expected) + 1 - n].value, start, end)]

\* for (const [address, expectedAmount] of recipients) results.push(...)
verifyTransfers(start, end, expected) ==
  [n \in 1..Len(expected) |->
     VerificationResult(expected[n].key, expected[n].value, start, end)]

\* loadCSVData of the transfer driver on the same recipients.csv: one
\* TransferData per row
loadCSVData(file) ==
  [n \in 1..Len(file) |-> [address |-> file[n].address, amount |-> file[n].value]]

IsMatch(r) == r.matches
IsMismatch(r) == ~r.matches

\* mismatches.reduce((sum, result) => sum + (result.difference || 0n), 0n)
RECURSIVE SumDifferences(_)
SumDifferences(rs) ==
  IF rs = <<>> THEN 0 ELSE OrZero(Head(rs).difference) + SumDifferences(Tail(rs))

\* every result is counted as a match
generateReportCountingAll(rs) ==
  LET matches == rs
      mismatches == SelectSeq(rs, IsMismatch)
  IN [total |-> Len(rs), matches |-> Len(matches), mismatches |-> Len(mismatches),
      totalDiscrepancy |-> IF Len(mismatches) = 0 THEN <<>>
                           ELSE <<SumDifferences(mismatches)>>]

\* the figures generateReport prints; the total discrepancy is printed only
\* when there is a mismatch
generateReport(rs) ==
  LET matches == SelectSeq(rs, IsMatch)
      mismatches == SelectSeq(rs, IsMismatch)
  IN [total |-> Len(rs), matches |-> Len(matches), mismatches |-> Len(mismatches),
      totalDiscrepancy |-> IF Len(mismatches) = 0 THEN <<>>
                           ELSE <<SumDifferences(mismatches)>>]

\* the files: rows of recipients.csv in the spellings the address check of
\* loadCSVData accepts, snapshot rows in a fixed address order
RawAddresses == {"0xa", "0xA", "0xb"}

RecipientRows == [address : RawAddresses, value : {1, MaxAmount}]

RecipientFiles == UNION {[1..n -> RecipientRows] : n \in 0..MaxRows}

RECURSIVE SnapshotFiles(_, _)
SnapshotFiles(addresses, values) ==
  IF addresses = <<>> THEN {<<>>}
  ELSE LET rest == SnapshotFiles(Tail(addresses), values)
       IN rest \cup {<<[address |-> Head(addresses), value |-> v]>> \o r :
                       v \in values, r \in rest}

HeaderLine == [address |-> "address", value |-> 0]

\* the files main looks for in the data directory
FileNames == {"start_balances_soneium.csv", "end.csv", "recipients.csv"}

\* either the three files exist, with any content, or one or more is missing
InitReconcile ==
  /\ \/ /\ filesPresent = FileNames
        /\ recipientsFile \in RecipientFiles
        /\ startFile \in SnapshotFiles(<<"0xA", "0xb">>, 0..MaxSnapshot)
        /\ \E rows \in SnapshotFiles(<<"0xa", "0xb">>, 0..(MaxSnapshot + MaxAmount)),
              other \in SnapshotFiles(<<"0xC">>, {MaxSnapshot}) :
             endFile = <<HeaderLine>> \o rows \o other
     \/ /\ filesPresent \in (SUBSET FileNames) \ {FileNames}
        /\ recipientsFile = <<>> /\ startFile = <<>> /\ endFile = <<>>
  /\ startBalances = <<>> /\ endBalances = <<>> /\ recipientMap = <<>>
  /\ results = <<>> /\ report = <<>>
  /\ outputFile = <<>> /\ exitCode = <<>>
  /\ pc = "checkFiles"
  /\ batches = <<>>
  /\ DriverIdle /\ BatchesIdle /\ OthersIdle

\* the error is logged and the script goes on to its normal end
ExitWithErrorIgnored ==
  /\ pc' = "exited"
  /\ exitCode' = <<0>>

\* the catch block of main: console.error, process.exit(1)
ExitWithError ==
  /\ pc' = "exited"
  /\ exitCode' = <<1>>

\* for (const file of files) if (!fs.existsSync(file.path)) throw ...
checkFiles ==
  /\ pc = "checkFiles"
  /\ IF filesPresent = FileNames
     THEN pc' = "load" /\ UNCHANGED exitCode
     ELSE ExitWithError
  /\ UNCHANGED <<chainVars, batchVars, contractVars, loaderVars, parseVars, checkVars, startFile, endFile, recipientsFile, startBalances,
                 endBalances, recipientMap, results, report, filesPresent, outputFile,
                 driver, batches, startBal, currentAllowance, batchNumber, selected,
                 verificationData, j, gasEstimate, observed, verified, failedBatch,
                 failedStep, error>>

\* Promise.all([loadStartBalances(..), loadEndBalances(..), loadRecipients(..)])
loadAll ==
  /\ pc = "load"
  /\ startBalances' = loadStartBalances(startFile)
  /\ endBalances' = loadEndBalances(endFile)
  /\ recipientMap' = loadRecipients(recipientsFile)
  /\ pc' = "verifyTransfers"
  /\ UNCHANGED <<chainVars, batchVars, contractVars, loaderVars, parseVars, checkVars, startFile, endFile, recipientsFile, results, report,
                 filesPresent, outputFile, exitCode,
                 driver, batches, startBal, currentAllowance, batchNumber, selected,
                 verificationData, j, gasEstimate, observed, verified, failedBatch,
                 failedStep, error>>

\* const results = verifyTransfers(startBalances, endBalances, recipients)
callVerifyTransfers ==
  /\ pc = "verifyTransfers"
  /\ results' = verifyTransfers(startBalances, endBalances, recipientMap)
  /\ pc' = "generateReport"
  /\ UNCHANGED <<chainVars, batchVars, contractVars, loaderVars, parseVars, checkVars, startFile, endFile, recipientsFile, startBalances,
                 endBalances, recipientMap, report, filesPresent, outputFile, exitCode,
                 driver, batches, startBal, currentAllowance, batchNumber, selected,
                 verificationData, j, gasEstimate, observed, verified, failedBatch,
                 failedStep, error>>

\* generateReport(results)
callGenerateReport ==
  /\ pc = "generateReport"
  /\ report' = generateReport(results)
  /\ pc' = "reconciled"
  /\ UNCHANGED <<chainVars, batchVars, contractVars, loaderVars, parseVars, checkVars, startFile, endFile, recipientsFile, startBalances,
                 endBalances, recipientMap, results, filesPresent, outputFile, exitCode,
                 driver, batches, startBal, currentAllowance, batchNumber, selected,
                 verificationData, j, gasEstimate, observed, verified, failedBatch,
                 failedStep, error>>

\* Number/BigInt.prototype.toString(): the decimal digits, most significant
\* first, after a minus sign for a negative value
Digit(d) ==
  CASE d = 0 -> "0" [] d = 1 -> "1" [] d = 2 -> "2" [] d = 3 -> "3" [] d = 4 -> "4"
    [] d = 5 -> "5" [] d = 6 -> "6" [] d = 7 -> "7" [] d = 8 -> "8" [] d = 9 -> "9"

RECURSIVE Digits(_)
Digits(n) == IF n < 10 THEN <<Digit(n)>> ELSE Append(Digits(n \div 10), Digit(n % 10))

toString(n) == IF n < 0 THEN <<"-">> \o Digits(0 - n) ELSE Digits(n)

\* results.map(result => ({...result, startBalance: ....toString(), ...,
\* difference: result.difference?.toString() || null}))
JsonResult(result) ==
  [address |-> result.address,
   startBalance |-> toString(result.startBalance),
   expectedAmount |-> toString(result.expectedAmount),
   endBalance |-> toString(result.endBalance),
   calculatedEnd |-> toString(result.calculatedEnd),
   matches |-> result.matches,
   difference |-> IF result.difference = <<>> THEN <<>>
                  ELSE toString(result.difference[1])]

jsonResults(rs) == [n \in 1..Len(rs) |-> JsonResult(rs[n])]

\* fs.writeFileSync(outputPath, JSON.stringify(jsonResults, null, 2)): the
\* file is written, or the write throws and the catch block exits with 1;
\* after a write main returns and the process ends with code 0
saveResults ==
  /\ pc = "reconciled"
  /\ \/ /\ outputFile' = jsonResults(results)
        /\ pc' = "exited"
        /\ exitCode' = <<0>>
     \/ /\ ExitWithError
        /\ UNCHANGED outputFile
  /\ UNCHANGED <<chainVars, batchVars, contractVars, loaderVars, parseVars, checkVars, startFile, endFile, recipientsFile, startBalances,
                 endBalances, recipientMap, results, report, filesPresent,
                 driver, batches, startBal, currentAllowance, batchNumber, selected,
                 verificationData, j, gasEstimate, observed, verified, failedBatch,
                 failedStep, error>>

NextReconcile ==
  \/ checkFiles
  \/ loadAll
  \/ callVerifyTransfers
  \/ callGenerateReport
  \/ saveResults

SpecReconcile == InitReconcile /\ [][NextReconcile]_vars

\* ------------------------------------------- BulkSender called directly
\* the script positions and locals of the transfer driver, not in use
RunIdle ==
  /\ standardToken = TRUE
  /\ writes = <<>>
  /\ receipts = <<>>
  /\ driver = "transferHelpers"
  /\ batches = <<>>
  /\ currentAllowance = 0
  /\ batchNumber = 0
  /\ selected = <<>>
  /\ verificationData = <<>>
  /\ j = 0
  /\ gasEstimate = "none"
  /\ observed = {}
  /\ verified = {}
  /\ failedBatch = 0
  /\ failedStep = ""
  /\ error = ""

\* the arguments a caller can pass: recipients may hold the zero address and
\* repeat, amounts may hold 0, the arrays may differ in length
CallAddresses == Recipients \cup {ZeroAddress}
AddressArrays == UNION {[1..n -> CallAddresses] : n \in 0..MaxEntries}
AmountArrays == UNION {[1..n -> 0..MaxAmount] : n \in 0..MaxEntries}

InitContract ==
  /\ \E b \in {MaxBalance - 1, MaxBalance} :
       bal = [h \in Holders |-> IF h = Sender THEN b ELSE 0]
  /\ startBal = bal
  /\ allow = 0
  /\ paused = FALSE
  /\ recipientLimit = DefaultRecipientLimit
  /\ envActs = 0
  /\ pc = "contract"
  /\ RunIdle /\ ContractIdle
  /\ BatchesIdle /\ ReconcileIdle /\ LoaderIdle /\ ParseIdle /\ CheckIdle

\* token.approve(BulkSender, amount) by the sender
approve(amount) ==
  /\ pc = "contract"
  /\ allow' = amount
  /\ UNCHANGED <<bal, paused, recipientLimit, standardToken, writes, receipts, envActs,
                 driverVars, toolVars>>

\* setRecipientLimit(newLimit) by the owner: require(newLimit > 0)
setRecipientLimit(newLimit) ==
  /\ pc = "contract"
  /\ recipientLimit' = IF newLimit > 0 THEN newLimit ELSE recipientLimit
  /\ UNCHANGED <<bal, allow, paused, standardToken, writes, receipts, envActs,
                 driverVars, toolVars>>

\* the transfers made before the zero address was met stay in place
AfterRevertKeepingTransfers(reason, _recipients, _amounts) ==
  IF reason = "BulkSender: Invalid recipient"
  THEN LET k == CHOOSE k \in 1..Len(_recipients) :
                  /\ _recipients[k] = ZeroAddress
                  /\ \A m \in 1..(k - 1) : _recipients[m] # ZeroAddress
       IN Distribute([bal EXCEPT ![Sender] = @ - SumAmounts(_amounts),
                                 ![BulkSender] = @ + SumAmounts(_amounts)],
                     SubSeq(_recipients, 1, k - 1), SubSeq(_amounts, 1, k - 1), 1)
  ELSE bal

\* a revert discards every state change of the call
AfterRevert(reason, _recipients, _amounts) == bal

\* BulkSender.write.bulkSendERC20Different([_token, _recipients, _amounts]) by
\* the sender, executed as one transaction
callBulkSendERC20Different(_token, _recipients, _amounts) ==
  /\ pc = "contract"
  /\ LET reason == bulkSendERC20DifferentRevert(_token, _recipients, _amounts)
     IN /\ callResult' = reason
        /\ IF reason = ""
           THEN /\ bal' = bulkSendERC20DifferentBalances(_recipients, _amounts)
                /\ allow' = allow - SumAmounts(_amounts)
           ELSE /\ bal' = AfterRevert(reason, _recipients, _amounts)
                /\ allow' = allow
  /\ callArgs' = [token |-> _token, recipients |-> _recipients, amounts |-> _amounts]
  /\ before' = [bal |-> bal, allow |-> allow, paused |-> paused,
                recipientLimit |-> recipientLimit]
  /\ pc' = "called"
  /\ UNCHANGED <<paused, recipientLimit, standardToken, writes, receipts, envActs,
                 batchVars, reconcileVars, loaderVars, parseVars, checkVars, initialBalances,
                 totalTransferred,
                 driver, batches, startBal, currentAllowance, batchNumber, selected,
                 verificationData, j, gasEstimate, observed, verified, failedBatch,
                 failedStep, error>>

NextContract ==
  \/ \E amount \in 0..MaxBalance : approve(amount)
  \/ \E newLimit \in 0..MaxEntries : setRecipientLimit(newLimit)
  \/ pc = "contract" /\ ~paused /\ setPaused(TRUE)
  \/ /\ pc = "contract"
     /\ \E token \in {Token, ZeroAddress}, rs \in AddressArrays, as \in AmountArrays :
          callBulkSendERC20Different(token, rs, as)

SpecContract == InitContract /\ [][NextContract]_vars

\* ------------------------------- any sequence of calls to BulkSender
\* the account the constructor made owner, and the accounts that call
Owner == "owner"
Callers == {Owner, Sender}

\* the call as the contract receives it: function, msg.sender and arguments
Call(fn, caller, _token, _recipients, _amounts, amount, newLimit, p) ==
  [fn |-> fn, caller |-> caller, token |-> _token, recipients |-> _recipients,
   amounts |-> _amounts, amount |-> amount, newLimit |-> newLimit, paused |-> p]

\* the chain state a call starts in
Snapshot == [bal |-> bal, allow |-> allow, paused |-> paused,
             recipientLimit |-> recipientLimit]

\* the same check with whenNotPaused left out
bulkSendERC20EqualRevertWhilePaused(_token, _recipients, amount) ==
  IF validArrayLength(Len(_recipients)) # "" THEN validArrayLength(Len(_recipients))
  ELSE IF ~(amount > 0) THEN "BulkSender: Amount must be greater than 0"
  ELSE IF validateERC20Transfer(_token, amount * Len(_recipients)) # ""
       THEN validateERC20Transfer(_token, amount * Len(_recipients))
  ELSE IF \E k \in 1..Len(_recipients) : _recipients[k] = ZeroAddress
       THEN "BulkSender: Invalid recipient"
  ELSE ""

\* the first require of bulkSendERC20Equal that fails, "" when it succeeds
bulkSendERC20EqualRevert(_token, _recipients, amount) ==
  IF paused THEN "EnforcedPause"
  ELSE IF validArrayLength(Len(_recipients)) # "" THEN validArrayLength(Len(_recipients))
  ELSE IF ~(amount > 0) THEN "BulkSender: Amount must be greater than 0"
  ELSE IF validateERC20Transfer(_token, amount * Len(_recipients)) # ""
       THEN validateERC20Transfer(_token, amount * Len(_recipients))
  ELSE IF \E k \in 1..Len(_recipients) : _recipients[k] = ZeroAddress
       THEN "BulkSender: Invalid recipient"
  ELSE ""

\* the contract pulls amount once, then pays amount to every recipient
bulkSendERC20EqualBalancesPullingOnce(_recipients, amount) ==
  Distribute([bal EXCEPT ![Sender] = @ - amount,
                         ![BulkSender] = @ + amount],
             _recipients, [k \in 1..Len(_recipients) |-> amount], 1)

\* balances after a successful bulkSendERC20Equal: safeTransferFrom of
\* amount * recipients.length into the contract, then amount to each recipient
bulkSendERC20EqualBalances(_recipients, amount) ==
  Distribute([bal EXCEPT ![Sender] = @ - amount * Len(_recipients),
                         ![BulkSender] = @ + amount * Len(_recipients)],
             _recipients, [k \in 1..Len(_recipients) |-> amount], 1)

\* any caller may set the limit
setRecipientLimitRevertAnyCaller(caller, newLimit) ==
  IF ~(newLimit > 0) THEN "BulkSender: Limit must be greater than 0"
  ELSE ""

\* onlyOwner, then require(newLimit > 0)
setRecipientLimitRevert(caller, newLimit) ==
  IF caller # Owner THEN "OwnableUnauthorizedAccount"
  ELSE IF ~(newLimit > 0) THEN "BulkSender: Limit must be greater than 0"
  ELSE ""

\* onlyOwner, then _pause (whenNotPaused) or _unpause (whenPaused)
setPausedRevert(caller, p) ==
  IF caller # Owner THEN "OwnableUnauthorizedAccount"
  ELSE IF p /\ paused THEN "EnforcedPause"
  ELSE IF ~p /\ ~paused THEN "ExpectedPause"
  ELSE ""

\* the view function
getRecipientLimit == recipientLimit

\* tokens sent to the contract by mistake may lie in it from the start
InitSequence ==
  /\ \E c \in {0, 1} :
       bal = [h \in Holders |-> IF h = Sender THEN MaxBalance
                                ELSE IF h = BulkSender THEN c ELSE 0]
  /\ startBal = bal
  /\ allow = 0
  /\ paused = FALSE
  /\ recipientLimit = DefaultRecipientLimit
  /\ envActs = 0
  /\ pc = "sequence"
  /\ RunIdle /\ ContractIdle
  /\ BatchesIdle /\ ReconcileIdle /\ LoaderIdle /\ ParseIdle /\ CheckIdle

\* what no call to BulkSender touches
outsideContract == <<standardToken, writes, receipts, driver, batches, startBal,
                     currentAllowance, batchNumber, selected, verificationData, j,
                     gasEstimate, observed, verified, failedBatch, failedStep, error,
                     batchVars, reconcileVars, loaderVars, parseVars, checkVars, initialBalances,
                     totalTransferred>>

\* token.approve(BulkSender, amount) by the sender, between two calls
approveBetweenCalls(amount) ==
  /\ allow' = amount
  /\ UNCHANGED <<bal, paused, recipientLimit, envActs, pc, contractVars, outsideContract>>

\* bulkSendERC20Different(_token, _recipients, _amounts) by the sender
bulkSendERC20Different(_token, _recipients, _amounts) ==
  /\ LET reason == bulkSendERC20DifferentRevert(_token, _recipients, _amounts)
     IN /\ callResult' = reason
        /\ IF reason = ""
           THEN /\ bal' = bulkSendERC20DifferentBalances(_recipients, _amounts)
                /\ allow' = allow - SumAmounts(_amounts)
           ELSE UNCHANGED <<bal, allow>>
  /\ callArgs' = Call("bulkSendERC20Different", Sender, _token, _recipients, _amounts,
                      0, 0, FALSE)
  /\ before' = Snapshot
  /\ pc' = "returned"
  /\ UNCHANGED <<paused, recipientLimit, envActs, outsideContract>>

\* bulkSendERC20Equal(_token, _recipients, amount) by the sender
bulkSendERC20Equal(_token, _recipients, amount) ==
  /\ LET reason == bulkSendERC20EqualRevert(_token, _recipients, amount)
     IN /\ callResult' = reason
        /\ IF reason = ""
           THEN /\ bal' = bulkSendERC20EqualBalances(_recipients, amount)
                /\ allow' = allow - amount * Len(_recipients)
           ELSE UNCHANGED <<bal, allow>>
  /\ callArgs' = Call("bulkSendERC20Equal", Sender, _token, _recipients, <<>>,
                      amount, 0, FALSE)
  /\ before' = Snapshot
  /\ pc' = "returned"
  /\ UNCHANGED <<paused, recipientLimit, envActs, outsideContract>>

\* setRecipientLimit(newLimit) sent by caller
setRecipientLimitBy(caller, newLimit) ==
  /\ callResult' = setRecipientLimitRevert(caller, newLimit)
  /\ recipientLimit' = IF setRecipientLimitRevert(caller, newLimit) = ""
                       THEN newLimit ELSE recipientLimit
  /\ callArgs' = Call("setRecipientLimit", caller, "", <<>>, <<>>, 0, newLimit, FALSE)
  /\ before' = Snapshot
  /\ pc' = "returned"
  /\ UNCHANGED <<bal, allow, paused, envActs, outsideContract>>

\* setPaused(p) sent by caller; envActs counts the changes of the paused state
setPausedBy(caller, p) ==
  /\ setPausedRevert(caller, p) = "" => envActs < MaxEnv + 1
  /\ callResult' = setPausedRevert(caller, p)
  /\ paused' = IF setPausedRevert(caller, p) = "" THEN p ELSE paused
  /\ envActs' = IF setPausedRevert(caller, p) = "" THEN envActs + 1 ELSE envActs
  /\ callArgs' = Call("setPaused", caller, "", <<>>, <<>>, 0, 0, p)
  /\ before' = Snapshot
  /\ pc' = "returned"
  /\ UNCHANGED <<bal, allow, recipientLimit, outsideContract>>

\* the caller has looked at the outcome and goes on to its next call
nextCall ==
  /\ pc = "returned"
  /\ pc' = "sequence"
  /\ callArgs' = <<>>
  /\ callResult' = ""
  /\ before' = <<>>
  /\ UNCHANGED <<bal, allow, paused, recipientLimit, envActs, outsideContract>>

NextSequence ==
  \/ pc = "sequence" /\ \E amount \in 0..MaxBalance : approveBetweenCalls(amount)
  \/ /\ pc = "sequence"
     /\ \E rs \in AddressArrays, as \in AmountArrays : bulkSendERC20Different(Token, rs, as)
  \/ /\ pc = "sequence"
     /\ \E rs \in AddressArrays, amount \in 0..MaxAmount : bulkSendERC20Equal(Token, rs, amount)
  \/ /\ pc = "sequence"
     /\ \E caller \in Callers, newLimit \in 0..MaxEntries : setRecipientLimitBy(caller, newLimit)
  \/ /\ pc = "sequence"
     /\ \E caller \in Callers, p \in BOOLEAN : setPausedBy(caller, p)
  \/ nextCall

SpecSequence == InitSequence /\ [][NextSequence]_vars

\* ------------------------- a list sent batch by batch (csv-bulk-send test)
\* the values a Map of bigint holds, added up
RECURSIVE SumValues(_)
SumValues(map) ==
  IF map = <<>> THEN 0 ELSE Head(map).value + SumValues(Tail(map))

\* await AstrToken.read.balanceOf([recipient])
balanceOf(recipient) == bal[recipient]

\* for (const recipient of recipients)
\*   if (!balanceMap.has(recipient)) balanceMap.set(recipient, balanceOf(recipient))
RECURSIVE storeInitialBalances(_, _)
storeInitialBalances(rs, balanceMap) ==
  IF rs = <<>> THEN balanceMap
  ELSE storeInitialBalances(Tail(rs),
         IF MapHas(balanceMap, Head(rs)) THEN balanceMap
         ELSE MapSet(balanceMap, Head(rs), balanceOf(Head(rs))))

\* the index sets that samplesToCheck = Math.min(5, n) draws of
\* Math.floor(Math.random() * n) can visit
SampleSets(n) ==
  {S \in SUBSET (1..n) : S # {} /\ Cardinality(S) <= Min(TestSamples, n)}

\* expect(currentBalance).to.equal(initialBalance + expectedAmount)
SampleOk(index) ==
  balanceOf(recipients[index]) =
    OrZero(MapGet(initialBalances, recipients[index])) + amounts[index]

\* the final balances are added up, the captured ones are not subtracted
sumTransferredFinalOnly ==
  SumValues([n \in 1..Len(initialBalances) |->
               [key |-> initialBalances[n].key,
                value |-> balanceOf(initialBalances[n].key)]])

\* totalTransferred += (finalBalance - initialBalance) over the Map entries
sumTransferred ==
  SumValues([n \in 1..Len(initialBalances) |->
               [key |-> initialBalances[n].key,
                value |-> balanceOf(initialBalances[n].key) - initialBalances[n].value]])

ListInputs == UNION {[1..n -> TransferData] : n \in 0..MaxList}

\* setRecipientLimit([batchSize]); setBalance([owner, totalAmount * 2n]);
\* approve([BulkSender, totalAmount]); the recipients may already hold tokens
InitBatchSend ==
  /\ arrayArg \in ListInputs
  /\ batchSizeArg \in 1..MaxList
  /\ loopIndex = 0
  /\ \E held \in [Recipients -> 0..MaxSnapshot] :
       bal = [h \in Holders |->
                IF h = Sender THEN 2 * SumAmounts(AmountsOf(arrayArg))
                ELSE IF h \in Recipients THEN held[h] ELSE 0]
  /\ startBal = bal
  /\ allow = SumAmounts(AmountsOf(arrayArg))
  /\ paused = FALSE
  /\ recipientLimit = batchSizeArg
  /\ envActs = 0
  /\ pc = "split"
  /\ RunIdle /\ ContractIdle /\ ReconcileIdle /\ LoaderIdle /\ ParseIdle /\ CheckIdle

\* const batches = createBatches(csvData, 200); const initialBalances = new Map()
splitCsvData ==
  /\ pc = "split"
  /\ batches' = createBatches(arrayArg, batchSizeArg)
  /\ batchNumber' = 1
  /\ pc' = IF Len(batches') = 0 THEN "sum" ELSE "store"
  /\ UNCHANGED <<chainVars, toolVars, driver, startBal, currentAllowance, selected,
                 verificationData, j, gasEstimate, observed, verified, failedBatch,
                 failedStep, error>>

\* await storeInitialBalances(recipients, AstrToken, initialBalances)
callStoreInitialBalances ==
  /\ pc = "store"
  /\ initialBalances' = storeInitialBalances(recipients, initialBalances)
  /\ pc' = "send"
  /\ UNCHANGED <<chainVars, driver, batches, startBal, currentAllowance, batchNumber,
                 selected, verificationData, j, gasEstimate, observed, verified,
                 failedBatch, failedStep, error, batchVars, reconcileVars, loaderVars,
                 parseVars, checkVars, callArgs, callResult, before, totalTransferred>>

\* await BulkSender.write.bulkSendERC20Different([token, recipients, amounts]):
\* a revert rejects the promise and ends the test
sendBatch ==
  /\ pc = "send"
  /\ LET reason == bulkSendERC20DifferentRevert(Token, recipients, amounts)
     IN IF reason = ""
        THEN /\ bal' = bulkSendERC20DifferentBalances(recipients, amounts)
             /\ allow' = allow - SumAmounts(amounts)
             /\ pc' = "verify"
        ELSE /\ pc' = "failed"
             /\ UNCHANGED <<bal, allow>>
  /\ UNCHANGED <<paused, recipientLimit, standardToken, writes, receipts, envActs,
                 toolVars, driver, batches, startBal, currentAllowance, batchNumber,
                 selected, verificationData, j, gasEstimate, observed, verified,
                 failedBatch, failedStep, error>>

\* await verifyRandomSamples(recipients, amounts, initialBalances, AstrToken):
\* a failed expect ends the test, otherwise the loop goes to the next batch
callVerifyRandomSamples ==
  /\ pc = "verify"
  /\ \E S \in SampleSets(Len(recipients)) :
       pc' = IF \A index \in S : SampleOk(index)
             THEN (IF batchNumber < Len(batches) THEN "store" ELSE "sum")
             ELSE "failed"
  /\ batchNumber' = IF pc' = "store" THEN batchNumber + 1 ELSE batchNumber
  /\ UNCHANGED <<chainVars, toolVars, driver, batches, startBal, currentAllowance,
                 selected, verificationData, j, gasEstimate, observed, verified,
                 failedBatch, failedStep, error>>

\* for (const [recipient, initialBalance] of initialBalances.entries()) ...
callSumTransferred ==
  /\ pc = "sum"
  /\ totalTransferred' = <<sumTransferred>>
  /\ pc' = "summed"
  /\ UNCHANGED <<chainVars, driver, batches, startBal, currentAllowance, batchNumber,
                 selected, verificationData, j, gasEstimate, observed, verified,
                 failedBatch, failedStep, error, batchVars, reconcileVars, loaderVars,
                 parseVars, checkVars, callArgs, callResult, before, initialBalances>>

NextBatchSend ==
  \/ splitCsvData
  \/ callStoreInitialBalances
  \/ sendBatch
  \/ callVerifyRandomSamples
  \/ callSumTransferred

SpecBatchSend == InitBatchSend /\ [][NextBatchSend]_vars

\* ------------------------- processSingleBatch on a batch that is applied
\* The guard has returned for a list of one batch; the balance and the
\* allowance of the sender cover the batch.
InitApplied ==
  /\ \E csvData \in ListInputs \ {<<>>} :
       /\ batches = <<csvData>>
       /\ bal = [h \in Holders |->
                   IF h = Sender THEN SumAmounts(AmountsOf(csvData)) ELSE 0]
       /\ allow = SumAmounts(AmountsOf(csvData))
       /\ currentAllowance = SumAmounts(AmountsOf(csvData))
  /\ startBal = bal
  /\ paused = FALSE
  /\ recipientLimit = DefaultRecipientLimit
  /\ standardToken = TRUE
  /\ writes = <<>>
  /\ receipts = <<>>
  /\ envActs = 0
  /\ driver = "transferHelpers"
  /\ pc = "nextBatch"
  /\ batchNumber = 0
  /\ selected = <<>>
  /\ verificationData = <<>>
  /\ j = 0
  /\ gasEstimate = "none"
  /\ observed = {}
  /\ verified = {}
  /\ failedBatch = 0
  /\ failedStep = ""
  /\ error = ""
  /\ BatchesIdle /\ ReconcileIdle /\ OthersIdle

\* the transaction bulkSendERC20Different(token, recipients, amounts) of the
\* batch is mined between the estimate and the verification, where the script
\* has its (commented out) write: the sender is debited the total and every
\* recipients[i] is credited amounts[i]
applyBatch ==
  /\ pc = "verify" /\ j = 0
  /\ envActs = 0
  /\ bulkSendERC20DifferentRevert(Token, recipients, amounts) = ""
  /\ bal' = bulkSendERC20DifferentBalances(recipients, amounts)
  /\ allow' = allow - SumAmounts(amounts)
  /\ envActs' = envActs + 1
  /\ UNCHANGED <<paused, recipientLimit, standardToken, writes, receipts, driverVars,
                 toolVars>>

NextApplied ==
  \/ nextBatch
  \/ selectIndex
  \/ prepareRead
  \/ simulate
  \/ estimateGas
  \/ applyBatch
  \/ verifyRead

SpecApplied == InitApplied /\ [][NextApplied]_vars

\* ------------------------------------------ helpers.ts: parseWeiAmount
\* a string is the sequence of its characters
DecimalDigits == {Digit(d) : d \in 0..9}

\* String.prototype.replace(/[...]/g, ''): the characters of chars removed
RECURSIVE Remove(_, _)
Remove(s, chars) ==
  IF s = <<>> THEN <<>>
  ELSE (IF Head(s) \in chars THEN <<>> ELSE <<Head(s)>>) \o Remove(Tail(s), chars)

\* /["'\s]/: the quotes and the white space in use
QuotesAndSpace == {"\"", "'", " "}

\* /^\d+$/.test(cleaned)
OnlyDigits(s) == Len(s) > 0 /\ \A k \in 1..Len(s) : s[k] \in DecimalDigits

DigitValue(c) == CHOOSE d \in 0..9 : Digit(d) = c

\* BigInt(cleaned) of a string of decimal digits
RECURSIVE BigInt(_)
BigInt(s) ==
  IF s = <<>> THEN 0
  ELSE BigInt(SubSeq(s, 1, Len(s) - 1)) * 10 + DigitValue(s[Len(s)])

\* the commas stay in the string that is tested
parseWeiAmountKeepingCommas(s) ==
  LET cleaned == Remove(s, QuotesAndSpace)
  IN IF ~OnlyDigits(cleaned) THEN <<>> ELSE <<BigInt(cleaned)>>

\* parseWeiAmount: <<value>>, or <<>> when it throws 'Invalid amount format'
parseWeiAmount(s) ==
  LET cleaned == Remove(Remove(s, QuotesAndSpace), {","})
  IN IF ~OnlyDigits(cleaned) THEN <<>> ELSE <<BigInt(cleaned)>>

\* --------------------------------------- main of the bulk-transfer script
\* up to and including getContractInstances
HexDigits == DecimalDigits \cup {"a", "b", "c", "d", "e", "f", "A", "B", "C", "D", "E", "F"}

\* /^0x[a-fA-F0-9]{40}$/.test(address)
IsAddress(s) ==
  /\ Len(s) = 42
  /\ s[1] = "0" /\ s[2] = "x"
  /\ \A k \in 3..42 : s[k] \in HexDigits

\* String.prototype.trim
RECURSIVE TrimStart(_)
TrimStart(s) == IF s # <<>> /\ Head(s) = " " THEN TrimStart(Tail(s)) ELSE s

RECURSIVE TrimEnd(_)
TrimEnd(s) ==
  IF s # <<>> /\ s[Len(s)] = " " THEN TrimEnd(SubSeq(s, 1, Len(s) - 1)) ELSE s

trim(s) == TrimEnd(TrimStart(s))

\* validateAndParseRow(row, index): the TransferData of the row, or the
\* error it throws.  A column that is absent is <<>>: row[0]?.trim() is then
\* undefined, which !address treats as it treats the empty string.
validateAndParseRow(row, index) ==
  LET address == trim(row.address)
      amountText == trim(row.amount)
      amount == parseWeiAmount(amountText)
  IN IF address = <<>> \/ amountText = <<>>
       THEN [reason |-> "missing address or amount", row |-> index + 1]
     ELSE IF ~IsAddress(address)
       THEN [reason |-> "Invalid address format", row |-> index + 1]
     ELSE IF amount = <<>>
       THEN [reason |-> "Invalid amount", row |-> index + 1]
     ELSE IF amount[1] <= 0
       THEN [reason |-> "Amount must be positive", row |-> index + 1]
     ELSE [reason |-> "", row |-> index + 1, address |-> address, amount |-> amount[1]]

\* the rows that throw are left out and the others are returned
mapRowsSkippingBadRows(rows) ==
  LET validated == [k \in 1..Len(rows) |-> validateAndParseRow(rows[k], k - 1)]
      good == SelectSeq(validated, LAMBDA v : v.reason = "")
  IN [reason |-> "", row |-> 0,
      entries |-> [k \in 1..Len(good) |->
                     [address |-> good[k].address, amount |-> good[k].amount]]]

\* parsed.data.map((row, index) => validateAndParseRow(row, index)): the
\* first row that throws ends the map and nothing is returned
mapRows(rows) ==
  LET validated == [k \in 1..Len(rows) |-> validateAndParseRow(rows[k], k - 1)]
      bad == {k \in 1..Len(rows) : validated[k].reason # ""}
  IN IF bad # {}
     THEN LET first == CHOOSE k \in bad : \A m \in bad : k <= m
          IN [reason |-> validated[first].reason, row |-> first, entries |-> <<>>]
     ELSE [reason |-> "", row |-> 0,
           entries |-> [k \in 1..Len(rows) |->
                          [address |-> validated[k].address,
                           amount |-> validated[k].amount]]]

\* the columns a row of the file can hold
Hex(n, c) == [k \in 1..n |-> c]
AddressColumns ==
  {<<>>,
   <<"0", "x">> \o Hex(40, "a"),
   <<" ", "0", "x">> \o Hex(20, "F") \o Hex(20, "9") \o <<" ">>,
   <<"0", "x">> \o Hex(39, "a"),
   <<"0", "x">> \o Hex(39, "a") \o <<"g">>}
AmountColumns ==
  {<<>>, <<"1">>, <<"1", ",", "0", "0", "0">>, <<"0">>, <<"-", "1">>, <<"1", ".", "5">>}
RawRows == [address : AddressColumns, amount : AmountColumns]
RawFiles == UNION {[1..n -> RawRows] : n \in 0..MaxEntries}

\* TOKEN_ADDRESS and BULK_SENDER_ADDRESS are set, so validateEnvironment
\* does not throw
InitLoad ==
  /\ csvRows \in RawFiles
  /\ csvPresent \in BOOLEAN
  /\ csvPresent = FALSE => csvRows = <<>>
  /\ rpcCalls = 0
  /\ loaded = <<>>
  /\ pc = "validateEnvironment"
  /\ batches = <<>>
  /\ DriverIdle /\ BatchesIdle /\ ReconcileIdle /\ ContractIdle /\ ParseIdle /\ CheckIdle

\* await validateEnvironment(config): reads the configuration only
callValidateEnvironment ==
  /\ pc = "validateEnvironment"
  /\ pc' = "loadCSVData"
  /\ UNCHANGED <<chainVars, driver, batches, startBal, currentAllowance, batchNumber,
                 selected, verificationData, j, gasEstimate, observed, verified,
                 failedBatch, failedStep, error, toolVars>>

\* the error reaches main().catch: console.error, process.exitCode = 1
mainCatch ==
  /\ pc' = "failed"
  /\ exitCode' = <<1>>

\* const csvData = loadCSVData(csvPath): existsSync, readFileSync,
\* Papa.parse, then the map over the rows
callLoadCSVData ==
  /\ pc = "loadCSVData"
  /\ loaded' = IF ~csvPresent
               THEN [reason |-> "CSV file not found", row |-> 0, entries |-> <<>>]
               ELSE mapRows(csvRows)
  /\ IF loaded'.reason # ""
     THEN mainCatch
     ELSE pc' = "getContractInstances" /\ UNCHANGED exitCode
  /\ UNCHANGED <<chainVars, driver, batches, startBal, currentAllowance, batchNumber,
                 selected, verificationData, j, gasEstimate, observed, verified,
                 failedBatch, failedStep, error, batchVars, contractVars, parseVars, checkVars,
                 csvRows, csvPresent, rpcCalls, startFile, endFile, recipientsFile,
                 startBalances, endBalances, recipientMap, results, report,
                 filesPresent, outputFile>>

\* await getContractInstances(...): hre.viem.getWalletClients asks the node
\* for its accounts; from here on main works against the chain
callGetContractInstances ==
  /\ pc = "getContractInstances"
  /\ rpcCalls' = rpcCalls + 1
  /\ pc' = "connected"
  /\ UNCHANGED <<chainVars, driver, batches, startBal, currentAllowance, batchNumber,
                 selected, verificationData, j, gasEstimate, observed, verified,
                 failedBatch, failedStep, error, batchVars, reconcileVars,
                 contractVars, parseVars, checkVars, csvRows, csvPresent, loaded>>

NextLoad ==
  \/ callValidateEnvironment
  \/ callLoadCSVData
  \/ callGetContractInstances

SpecLoad == InitLoad /\ [][NextLoad]_vars

\* ------------------------------------------------ parseWeiAmount on its own
\* the integers whose renderings are parsed: every combination of the groups
\* of three digits below, so that 0, 1, 2 and 3 groups and padded groups occur
Groups == {0, 7, 45, 999}
Numbers == {a * 1000 * 1000 + b * 1000 + c : a, b, c \in Groups}

\* three digits, padded with zeros
Pad3(m) == <<Digit(m \div 100), Digit((m \div 10) % 10), Digit(m % 10)>>

\* the decimal rendering with a comma between groups of three digits
RECURSIVE WithSeparators(_)
WithSeparators(n) ==
  IF n < 1000 THEN Digits(n)
  ELSE WithSeparators(n \div 1000) \o <<",">> \o Pad3(n % 1000)

Rendered ==
  {[n |-> n, string |-> toString(n)] : n \in Numbers}
    \cup {[n |-> n, string |-> WithSeparators(n)] : n \in Numbers}

\* free-form strings: digits, separators, a sign, a point, a letter, a
\* space and a quote
AmountCharacters == {"0", "1", ",", "-", ".", "e", " ", "'"}
AmountStrings == UNION {[1..n -> AmountCharacters] : n \in 0..MaxChars}

InitParse ==
  /\ amountString \in {r.string : r \in Rendered} \cup AmountStrings
  /\ parsed = <<>>
  /\ pc = "parseWeiAmount"
  /\ batches = <<>>
  /\ DriverIdle /\ BatchesIdle /\ ReconcileIdle /\ ContractIdle /\ LoaderIdle /\ CheckIdle

\* amount = parseWeiAmount(amountString), the throw caught by the caller
callParseWeiAmount ==
  /\ pc = "parseWeiAmount"
  /\ parsed' = parseWeiAmount(amountString)
  /\ pc' = IF parsed' = <<>> THEN "threw" ELSE "parsed"
  /\ UNCHANGED <<chainVars, driver, batches, startBal, currentAllowance, batchNumber,
                 selected, verificationData, j, gasEstimate, observed, verified,
                 failedBatch, failedStep, error, batchVars, reconcileVars,
                 contractVars, loaderVars, checkVars, amountString>>

NextParse == callParseWeiAmount

SpecParse == InitParse /\ [][NextParse]_vars

Next ==
  \/ checkTokenBalance
  \/ readAllowance
  \/ writeReset
  \/ waitReset
  \/ writeApprove
  \/ waitApprove
  \/ rereadAllowance
  \/ nextBatch
  \/ selectIndex
  \/ prepareRead
  \/ simulate
  \/ estimateGas
  \/ submit
  \/ verifyRead
  \/ legacyVerifyRead
  \/ Mine
  \/ \E p \in BOOLEAN : setPaused(p)
  \/ \E r \in Recipients, a \in 1..MaxAmount : ThirdPartyTransfer(r, a)

Spec == Init /\ [][Next]_vars

\* the exit code is left at 0 whatever the run did
processExitCodeAlwaysZero == IF pc \in {"failed", "done"} THEN <<0>> ELSE <<>>

\* the exit code of the bulk-transfer script once main has settled:
\* main().catch sets process.exitCode = 1 when processTransferBatches threw,
\* otherwise the process ends with code 0 after the completion message
processExitCode ==
  IF pc = "failed" THEN <<1>> ELSE IF pc = "done" THEN <<0>> ELSE <<>>

\* ------------------------------ main from createBatches to the end of the run
\* config.batchSize is parseInt(process.env.BATCH_SIZE || "200"): any
\* integer the environment holds, 0 included; neither main nor
\* validateEnvironment looks at its value
ConfiguredBatchSizes == 0..MaxEntries

InitRun ==
  /\ \E b \in 0..MaxBalance : bal = [h \in Holders |-> IF h = Sender THEN b ELSE 0]
  /\ startBal = bal
  /\ allow \in 0..MaxAllowance
  /\ paused = FALSE
  /\ recipientLimit = DefaultRecipientLimit
  /\ standardToken \in BOOLEAN
  /\ writes = <<>>
  /\ receipts = <<>>
  /\ envActs = 0
  /\ driver \in Drivers
  /\ arrayArg \in CsvData
  /\ batchSizeArg \in ConfiguredBatchSizes
  /\ loopIndex = 0
  /\ batches = <<>>
  /\ pc = "createBatchesLoop"
  /\ currentAllowance = 0
  /\ batchNumber = 0
  /\ selected = <<>>
  /\ verificationData = <<>>
  /\ j = 0
  /\ gasEstimate = "none"
  /\ observed = {}
  /\ verified = {}
  /\ failedBatch = 0
  /\ failedStep = ""
  /\ error = ""
  /\ ReconcileIdle /\ OthersIdle

\* one test of the loop of createBatches, for (let i = 0; i < array.length;
\* i += batchSize) batches.push(array.slice(i, i + batchSize)), and after the
\* loop the call of processTransferBatches(batches, ...).  The loop is
\* followed for at most MaxSpin iterations more than the array has elements.
createBatchesStep ==
  /\ pc = "createBatchesLoop"
  /\ IF loopIndex < Len(arrayArg)
     THEN /\ Len(batches) < Len(arrayArg) + MaxSpin
          /\ batches' = Append(batches, Slice(arrayArg, loopIndex, batchSizeArg))
          /\ loopIndex' = loopIndex + batchSizeArg
          /\ UNCHANGED pc
     ELSE /\ pc' = "checkTokenBalance"
          /\ UNCHANGED <<batches, loopIndex>>
  /\ UNCHANGED <<chainVars, driver, startBal, currentAllowance, batchNumber, selected,
                 verificationData, j, gasEstimate, observed, verified, failedBatch,
                 failedStep, error, arrayArg, batchSizeArg, reconcileVars,
                 contractVars, loaderVars, parseVars, checkVars>>

\* the steps of the script: each is a computation or an awaited external
\* call (read, simulate, estimate, write, receipt wait)
ScriptStep ==
  \/ createBatchesStep
  \/ checkTokenBalance
  \/ readAllowance
  \/ writeReset
  \/ waitReset
  \/ writeApprove
  \/ waitApprove
  \/ rereadAllowance
  \/ nextBatch
  \/ selectIndex
  \/ prepareRead
  \/ simulate
  \/ estimateGas
  \/ submit
  \/ verifyRead
  \/ legacyVerifyRead

NextRun == createBatchesStep \/ Next

\* every external call eventually returns: a step of the script that can be
\* taken is taken, and a submitted transaction is mined
SpecRun == InitRun /\ [][NextRun]_vars /\ WF_vars(ScriptStep) /\ WF_vars(Mine)

\* the same run on the recipient list with two samples
SpecSampled == InitSampled /\ [][Next]_vars

\* --------------------------- the balance-checking script (verify balances)
\* the rows loadCSVData returns: an address and the amount expected on it
CSVEntry == [address : Recipients, expectedAmount : 0..MaxSnapshot]
EntryLists == UNION {[1..n -> CSVEntry] : n \in 0..MaxList}

\* the position of entry k of the current batch in the input list
EntryIndex(k) == batchIndex * checkBatchSize + k

\* checkBalance(client, token, address): the balance read, 0n when the read threw
checkBalance(address, ok) == IF ok THEN bal[address] ELSE 0

\* the callback mapped over the batch, from the value checkBalance returned
BalanceResult(entry, actualBalance) ==
  [address |-> entry.address,
   expectedAmount |-> entry.expectedAmount,
   actualBalance |-> actualBalance,
   matches |-> actualBalance = entry.expectedAmount,
   difference |-> IF actualBalance = entry.expectedAmount THEN <<>>
                  ELSE <<actualBalance - entry.expectedAmount>>]

\* the values in the order in which the promises were fulfilled
PromiseAllInCompletionOrder(ps) ==
  LET mine == SelectSeq(readLog, LAMBDA e : e.batch = batchIndex)
  IN [k \in 1..Len(ps) |-> ps[mine[k].entry - batchIndex * checkBatchSize].value]

\* Promise.all(ps): the fulfilment values in the order of the array ps
PromiseAll(ps) == [k \in 1..Len(ps) |-> ps[k].value]

Pending == [state |-> "pending", value |-> <<>>]

InitCheck ==
  /\ csvEntries \in EntryLists
  /\ checkBatchSize \in 1..MaxEntries
  /\ \E held \in 1..MaxSnapshot :      \* one address holds tokens, the other none
       bal = [h \in Holders |-> IF h = "r2" THEN held ELSE 0]
  /\ startBal = bal
  /\ allow = 0
  /\ paused = FALSE
  /\ recipientLimit = DefaultRecipientLimit
  /\ envActs = 0
  /\ batchIndex = 0
  /\ promises = <<>>
  /\ readLog = <<>>
  /\ balanceResults = <<>>
  /\ pc = "splitEntries"
  /\ RunIdle /\ ContractIdle
  /\ BatchesIdle /\ ReconcileIdle /\ LoaderIdle /\ ParseIdle

\* what the balance-checking script neither reads nor writes
outsideCheck == <<allow, paused, recipientLimit, standardToken, writes, receipts, envActs,
                  driver, startBal, currentAllowance, batchNumber, selected,
                  verificationData, j, gasEstimate, observed, verified, failedBatch,
                  failedStep, error, batchVars, reconcileVars, contractVars, loaderVars,
                  parseVars>>

\* for (i = 0; i < entries.length; i += batchSize) batches.push(entries.slice(...))
splitEntries ==
  /\ pc = "splitEntries"
  /\ batches' = createBatches(csvEntries, checkBatchSize)
  /\ pc' = "nextCheckBatch"
  /\ UNCHANGED <<bal, csvEntries, checkBatchSize, batchIndex, promises, readLog,
                 balanceResults, outsideCheck>>

\* batch.map(async (entry) => ...): every callback runs up to its await, so
\* the reads of the whole batch are on their way before any of them returns
issueReads ==
  /\ pc = "nextCheckBatch"
  /\ batchIndex < Len(batches)
  /\ promises' = [k \in 1..Len(batches[batchIndex + 1]) |-> Pending]
  /\ pc' = "awaitAll"
  /\ UNCHANGED <<bal, batches, csvEntries, checkBatchSize, batchIndex, readLog,
                 balanceResults, outsideCheck>>

\* the read of entry k of the batch returns or throws; its callback runs on
\* to its return and fulfils the promise
completeRead(k, ok) ==
  /\ pc = "awaitAll"
  /\ k \in 1..Len(promises)
  /\ promises[k].state = "pending"
  /\ promises' = [promises EXCEPT ![k] =
                    [state |-> "fulfilled",
                     value |-> <<BalanceResult(batches[batchIndex + 1][k],
                                               checkBalance(batches[batchIndex + 1][k].address, ok))>>]]
  /\ readLog' = Append(readLog, [batch |-> batchIndex, entry |-> EntryIndex(k), ok |-> ok])
  /\ UNCHANGED <<bal, batches, pc, csvEntries, checkBatchSize, batchIndex, balanceResults,
                 outsideCheck>>

\* await Promise.all(batchPromises); results.push(...batchResults)
awaitAll ==
  /\ pc = "awaitAll"
  /\ \A k \in 1..Len(promises) : promises[k].state = "fulfilled"
  /\ balanceResults' = balanceResults \o [k \in 1..Len(promises) |-> PromiseAll(promises)[k][1]]
  /\ batchIndex' = batchIndex + 1
  /\ promises' = <<>>
  /\ pc' = "nextCheckBatch"
  /\ UNCHANGED <<bal, batches, csvEntries, checkBatchSize, readLog, outsideCheck>>

\* return results
returnResults ==
  /\ pc = "nextCheckBatch"
  /\ ~(batchIndex < Len(batches))
  /\ pc' = "checked"
  /\ UNCHANGED <<bal, batches, csvEntries, checkBatchSize, batchIndex, promises, readLog,
                 balanceResults, outsideCheck>>

NextCheck ==
  \/ splitEntries
  \/ issueReads
  \/ pc = "awaitAll" /\ \E k \in 1..MaxEntries, ok \in BOOLEAN : completeRead(k, ok)
  \/ awaitAll
  \/ returnResults

SpecCheck == InitCheck /\ [][NextCheck]_vars

\* ------------------------------------------------------- claims about the run
BatchCount == Len(batches)

\* the guard (checkTokenBalance, checkTokenAllowance) has returned normally
GuardReturned == batchNumber > 0 \/ pc \in {"nextBatch", "done"}

\* the run is in, or has passed, the post-phase verification of batch k
InOrPastVerification(k) ==
  \/ k \in verified
  \/ batchNumber = k /\ pc \in {"verify", "legacyVerify"}
  \/ batchNumber = k /\ pc = "failed" /\ failedStep \in {"verify", "legacyVerify"}

\* the run holds the observed receipt of a bulk transaction carrying exactly
\* the arrays of batch k
SubmittedAndConfirmed(k) ==
  \E n \in observed :
    /\ n \in 1..Len(writes)
    /\ writes[n] = BulkTx(k, AddressesOf(batches[k]), AmountsOf(batches[k]))

\* C1: for each batch, once the simulation has succeeded the driver submits
\* bulkSendERC20Different with the batch's recipient and amount arrays and
\* observes the confirmation before the post-phase verification re-reads any
\* sampled balance.
C1_SubmitAndConfirmBeforeVerification ==
  \A k \in 1..BatchCount : InOrPastVerification(k) => SubmittedAndConfirmed(k)

\* total listed for holder h over all batches
RECURSIVE ListedFor(_, _)
ListedFor(h, entries) ==
  IF entries = <<>> THEN 0
  ELSE (IF Head(entries).address = h THEN Head(entries).amount ELSE 0)
       + ListedFor(h, Tail(entries))

\* a standard token, a sender whose balance covers the total, and no step of
\* any other account during the run
QuietStandardRun ==
  /\ standardToken
  /\ envActs = 0
  /\ startBal[Sender] >= totalAmount

\* C2: with a standard ERC20 token, a sender balance covering the total and
\* non-empty batches within the recipient limit, processTransferBatches
\* completes successfully, and at completion every recipient's balance has
\* grown by exactly the sum of the amounts listed for it.
C2_RunCompletesAndCredits ==
  QuietStandardRun =>
    /\ pc # "failed"
    /\ pc = "done" =>
         \A r \in Recipients : bal[r] = startBal[r] + ListedFor(r, Flat(batches))

\* the bulk transaction of batch k was mined with status reverted
RevertedSubmission(k) ==
  \E n \in 1..Len(receipts) :
    writes[n].kind = "bulk" /\ writes[n].batch = k /\ receipts[n] = "reverted"

\* a step of batch k has failed
BatchStepFailed(k) ==
  \/ pc = "failed" /\ failedBatch = k
  \/ RevertedSubmission(k)

\* C3: if a step of batch k fails (simulation failure, reverted submission or
\* sampling mismatch), no step of a batch after k is ever attempted, the
\* failure is reported with the index k, and the changes of batches 1..k-1
\* stay in place.
C3_FatalHaltOnBatchFailure ==
  \A k \in 1..BatchCount :
    BatchStepFailed(k) =>
      /\ batchNumber <= k
      /\ pc \in {"failed", "done"} => (pc = "failed" /\ failedBatch = k)

\* C4: a failing gas estimation of a batch is not fatal: the run is not
\* aborted by it.
C4_EstimateFailureNotFatal ==
  ~(pc = "failed" /\ failedStep = "estimateGas")

\* ----------------------------------------------------- claims about the guard
IsApprove(tx) == tx.kind = "approve"
ApproveWrites == SelectSeq(writes, IsApprove)

\* checkTokenAllowance has returned or thrown
AllowanceCheckEnded ==
  \/ GuardReturned
  \/ pc = "failed" /\ failedStep \in {"waitReset", "waitApprove", "rereadAllowance"}

WritesFor(A, R) ==
  IF A >= R THEN <<>>
  ELSE IF A > 0 THEN <<ApproveTx(0), ApproveTx(R)>>
  ELSE <<ApproveTx(R)>>

ResetReverted == pc = "failed" /\ failedStep = "waitReset"

\* C5 as stated: checkTokenAllowance issues, for first-read allowance A and
\* required total R, exactly approve(0) then approve(R) when 0 < A < R, exactly
\* approve(R) when A = 0 < R, and nothing when A >= R.
C5_WritesByAllowance ==
  AllowanceCheckEnded => ApproveWrites = WritesFor(currentAllowance, totalAmount)

\* C5 amended: as C5, except that when 0 < A < R and the reset transaction is
\* confirmed with status reverted, approve(0) is the only write.
C5_WritesByAllowanceUnlessResetReverted ==
  AllowanceCheckEnded =>
    ApproveWrites = IF ResetReverted THEN <<ApproveTx(0)>>
                    ELSE WritesFor(currentAllowance, totalAmount)

C5_Witness ==
  /\ GuardReturned
  /\ 0 < currentAllowance /\ currentAllowance < totalAmount
  /\ ApproveWrites = <<ApproveTx(0), ApproveTx(totalAmount)>>

NoBulkWrite == \A n \in 1..Len(writes) : writes[n].kind # "bulk"

\* C6: checkTokenAllowance returns normally only on an allowance read that is
\* >= the required total; when the re-read after approving is smaller the
\* guard fails and no batch is simulated or submitted.
C6_AllowanceCoversTotalOnReturn ==
  /\ [][(pc \in {"checkTokenAllowance", "rereadAllowance"} /\ pc' = "nextBatch")
          => allow >= totalAmount]_vars
  /\ []((pc = "failed" /\ failedStep = "rereadAllowance")
          => (allow < totalAmount /\ batchNumber = 0 /\ failedBatch = 0 /\ NoBulkWrite))

C6_Witness ==
  /\ pc = "failed" /\ failedStep = "rereadAllowance"
  /\ Len(writes) > 0 /\ observed = 1..Len(writes)

\* C7: when the sender's balance is below the sum of all amounts the run fails
\* in checkTokenBalance, before any on-chain write and before any batch.
C7_InsufficientBalanceFailsFirst ==
  startBal[Sender] < totalAmount =>
    /\ writes = <<>>
    /\ batchNumber = 0
    /\ pc \in {"checkTokenBalance", "failed"}
    /\ pc = "failed" => (failedStep = "checkTokenBalance"
                         /\ error = "Insufficient token balance")

C7_Witness ==
  /\ startBal[Sender] < totalAmount
  /\ pc = "failed" /\ failedStep = "checkTokenBalance"

\* C8: every write of the guard is followed by the wait for its receipt, a
\* reverted receipt makes the guard fail, and after a reverted reset
\* approve(spender, R) is never issued.
C8_GuardWritesAwaited ==
  \A n \in 1..Len(writes) :
    IsApprove(writes[n]) =>
      /\ n \in observed \/ (n = Len(writes) /\ pc \in {"waitReset", "waitApprove"})
      /\ n \in observed => Mined(n)
      /\ (n \in observed /\ receipts[n] = "reverted") =>
           (pc = "failed" /\ failedBatch = 0 /\ batchNumber = 0)
      /\ (Mined(n) /\ receipts[n] = "reverted") => Len(writes) = n

C8_Witness ==
  /\ pc = "failed" /\ failedStep = "waitReset"
  /\ writes = <<ApproveTx(0)>> /\ receipts = <<"reverted">>

\* C9: over the whole run the sender never has two writes outstanding: a write
\* is issued only after the confirmation of the previous one was observed.
C9_SingleOutstandingWrite ==
  \A n \in 1..Len(writes) : n < Len(writes) => n \in observed

\* C10: batches are processed one after another in list order: batch k+1
\* starts only when the post-phase verification of batch k has completed
\* successfully, and no two batches have steps in progress together.
C10_BatchesStrictlySequential ==
  /\ [][batchNumber' # batchNumber =>
          /\ batchNumber' = batchNumber + 1
          /\ pc = "nextBatch"
          /\ batchNumber > 0 => batchNumber \in verified]_vars
  /\ [](\A k \in 1..BatchCount : k < batchNumber => k \in verified)

C10_Witness ==
  /\ batchNumber = 2 /\ 1 \in verified
  /\ pc \in {"prepareRead", "simulate", "estimateGas", "submit", "verify", "legacyVerify"}

\* ------------------------------------------------------ claims about a batch
\* the simulation of the current batch is rejected in the current chain state
SimulationFails == bulkSendERC20DifferentRevert(Token, recipients, amounts) # ""

NoBulkWriteFrom(k) ==
  \A n \in 1..Len(writes) : writes[n].kind = "bulk" => writes[n].batch < k

\* C11: if the simulation of a batch fails, that batch is never submitted, no
\* later batch is simulated or submitted, and the error leaves
\* processTransferBatches.
C11_SimulationFailureIsFatal ==
  /\ [][/\ (pc = "simulate" /\ pc' # pc /\ SimulationFails) =>
             (pc' = "failed" /\ failedBatch' = batchNumber /\ failedStep' = "simulate")
        /\ pc = "failed" =>
             (pc' = "failed" /\ writes' = writes /\ batchNumber' = batchNumber)]_vars
  /\ []((pc = "failed" /\ failedStep = "simulate") =>
          (failedBatch = batchNumber /\ NoBulkWriteFrom(batchNumber)))

C11_Witness ==
  /\ pc = "failed" /\ failedStep = "simulate"
  /\ batchNumber < BatchCount

\* C12: for every batch the initial balance of every sampled address is read
\* before the batch is simulated and before its transaction is submitted.
C12_InitialBalancesReadFirst ==
  /\ pc \in {"select", "prepareRead"} =>
       /\ Len(verificationData) = j /\ NoBulkWriteFrom(batchNumber)
       /\ pc = "prepareRead" => j < Len(selected)
  /\ (driver = "transferHelpers" /\ batchNumber > 0
        /\ (pc \in {"simulate", "estimateGas", "submit", "verify"}
            \/ (pc = "failed" /\ failedStep \in {"simulate", "estimateGas", "verify"}))) =>
       /\ Len(verificationData) = samplesToCheck(Len(recipients))
       /\ \A e \in 1..Len(verificationData) :
            /\ verificationData[e].address = recipients[selected[e] + 1]
            /\ verificationData[e].expectedAmount = amounts[selected[e] + 1]

C12_Witness ==
  /\ driver = "transferHelpers" /\ pc = "simulate"
  /\ Len(verificationData) >= 1

\* ------------------------------------------------- claims about the sampling
\* the balance increase of verification entry e in the current chain state
Delta(e) == bal[verificationData[e].address] - verificationData[e].initialBalance

\* C13: verifyBatchTransfers succeeds if and only if, for every sampled entry,
\* currentBalance - initialBalance equals the entry's expectedAmount; the first
\* sampled entry whose delta differs makes it fail, which aborts the run.
C13_VerificationByDelta ==
  [][/\ (pc = "verify" /\ (pc' # pc \/ j' # j)) =>
          /\ j < Len(verificationData)
          /\ Delta(j + 1) = verificationData[j + 1].expectedAmount =>
               /\ j' = j + 1 /\ pc' # "failed"
               /\ (pc' = "nextBatch" /\ batchNumber \in verified') <=>
                    j' = Len(verificationData)
               /\ pc' = "verify" <=> j' < Len(verificationData)
          /\ Delta(j + 1) # verificationData[j + 1].expectedAmount =>
               /\ pc' = "failed" /\ failedBatch' = batchNumber
               /\ failedStep' = "verify" /\ j' = j /\ verified' = verified
     /\ (driver = "transferHelpers" /\ verified' # verified) =>
          /\ pc = "verify" /\ j + 1 = Len(verificationData)
          /\ Delta(j + 1) = verificationData[j + 1].expectedAmount
     /\ (pc = "failed" /\ failedStep = "verify") =>
          (pc' = "failed" /\ batchNumber' = batchNumber /\ writes' = writes)]_vars

C13_Witness ==
  /\ pc = "failed" /\ failedStep = "verify"
  /\ Len(verificationData) = 2 /\ j = 1

\* ceil(0.1 * n) and clamp, written from their definitions
CeilTenth(n) == IF n % 10 = 0 THEN n \div 10 ELSE n \div 10 + 1

Clamp(x, lo, hi) == IF x < lo THEN lo ELSE IF x > hi THEN hi ELSE x

\* the sample count of every batch length up to MaxBatchChecked
SampleCountRule ==
  \A n \in 1..MaxBatchChecked :
    /\ samplesToCheck(n) = Clamp(CeilTenth(n), 1, 10)
    /\ samplesToCheck(n) <= n

\* the run is in processSingleBatch of transferHelpers.ts, at or after the
\* selection loop
InOrPastSelection ==
  /\ driver = "transferHelpers" /\ batchNumber > 0
  /\ \/ pc \in {"select", "prepareRead", "simulate", "estimateGas", "verify"}
     \/ pc = "failed" /\ failedStep \in {"simulate", "estimateGas", "verify"}

\* C14: for every batch length N >= 1 the selection loop of
\* prepareVerificationData ends with exactly clamp(ceil(0.1 * N), 1, 10)
\* indexes, that count is <= N, the indexes are pairwise distinct and lie in
\* 0..N-1, and each sample's expectedAmount is amounts[index] of its own index.
\* While the loop runs an index not yet selected exists, so that it can end.
C14_SampleSelection ==
  /\ SampleCountRule
  /\ InOrPastSelection =>
       LET N == Len(recipients)
       IN /\ \A a, b \in 1..Len(selected) : a # b => selected[a] # selected[b]
          /\ \A a \in 1..Len(selected) : selected[a] \in 0..(N - 1)
          /\ pc = "select" =>
               /\ Len(selected) < Clamp(CeilTenth(N), 1, 10)
               /\ \E i \in 0..(N - 1) : \A a \in 1..Len(selected) : selected[a] # i
          /\ pc # "select" =>
               /\ Len(selected) = Clamp(CeilTenth(N), 1, 10)
               /\ Len(selected) <= N
          /\ \A e \in 1..Len(verificationData) :
               verificationData[e].expectedAmount = amounts[selected[e] + 1]

C14_Witness ==
  /\ driver = "transferHelpers" /\ pc = "simulate"
  /\ Len(recipients) = SampledBatchLen
  /\ Len(selected) = 2 /\ Len(verificationData) = 2

\* ------------------------------------------------ claims about createBatches
\* C15: for every entry sequence E and every batchSize B >= 1, concatenating
\* the batches returned by createBatches(E, B) in order yields E exactly, and
\* every batch except possibly the last has length B.
C15_PartitionComplete ==
  pc = "returned" =>
    /\ Flat(batches) = arrayArg
    /\ \A k \in 1..(Len(batches) - 1) : Len(batches[k]) = batchSizeArg

C15_Witness ==
  /\ pc = "returned"
  /\ Len(batches) >= 2
  /\ Len(batches[Len(batches)]) < batchSizeArg

\* ceil(n / d) from its definition: the least c with c * d >= n
CeilDiv(n, d) == CHOOSE c \in 0..n : c * d >= n /\ (c = 0 \/ (c - 1) * d < n)

\* C16: for every E and B >= 1, createBatches(E, B) returns ceil(len(E) / B)
\* batches, each non-empty and of length <= B; the last batch has length
\* len(E) mod B, or B when B divides len(E); an empty E yields no batch.
C16_BatchCountAndLengths ==
  pc = "returned" =>
    LET L == Len(arrayArg)
        B == batchSizeArg
    IN /\ Len(batches) = CeilDiv(L, B)
       /\ \A k \in 1..Len(batches) : Len(batches[k]) >= 1 /\ Len(batches[k]) <= B
       /\ L > 0 => Len(batches[Len(batches)]) = (IF L % B = 0 THEN B ELSE L % B)
       /\ L = 0 => batches = <<>>

C16_Witness ==
  /\ pc = "returned"
  /\ Len(arrayArg) > 0 /\ Len(arrayArg) % batchSizeArg = 0
  /\ Len(batches) = 2 /\ Len(batches[2]) = batchSizeArg

\* ---------------------------------------- claims about the reconciliation
\* map(a, default 0), read off the entries
Default0(map, a) ==
  IF \E n \in 1..Len(map) : map[n].key = a
  THEN LET n == CHOOSE n \in 1..Len(map) : map[n].key = a IN map[n].value
  ELSE 0

Verified == pc \in {"generateReport", "reconciled"}

\* C17: for every address a of the expected map, verifyTransfers yields
\* matches = true iff end(a, default 0) = start(a, default 0) + expected(a);
\* when matches is false, difference = end(a) - (start(a) + expected(a)) as a
\* signed integer, and when matches is true, difference is absent.
C17_MatchesAndDifference ==
  Verified =>
    \A m \in 1..Len(recipientMap) :
      \E n \in 1..Len(results) :
        LET a == recipientMap[m].key
            calculated == Default0(startBalances, a) + recipientMap[m].value
        IN /\ results[n].address = a
           /\ results[n].matches <=> (Default0(endBalances, a) = calculated)
           /\ ~results[n].matches =>
                results[n].difference = <<Default0(endBalances, a) - calculated>>
           /\ results[n].matches => results[n].difference = <<>>

C17_Witness ==
  /\ Verified
  /\ \E n, m \in 1..Len(results) :
       /\ ~results[n].matches /\ results[n].difference[1] < 0
       /\ ~MapHas(startBalances, results[n].address)
       /\ results[m].matches

\* the entries of a snapshot whose address is a key of the expected map
RestrictTo(map, expected) ==
  LET Keep(e) == MapHas(expected, e.key) IN SelectSeq(map, Keep)

\* C18: verifyTransfers returns exactly one result per key of the
\* expected-transfer map, in that map's insertion order; an address present
\* only in the start or end snapshot produces no result and does not affect
\* any result.
C18_OneResultPerKey ==
  Verified =>
    /\ Len(results) = Len(recipientMap)
    /\ \A n \in 1..Len(results) : results[n].address = recipientMap[n].key
    /\ \A a, b \in 1..Len(results) : a # b => results[a].address # results[b].address
    /\ results = verifyTransfers(RestrictTo(startBalances, recipientMap),
                                RestrictTo(endBalances, recipientMap), recipientMap)

C18_Witness ==
  /\ Verified
  /\ Len(results) = 2 /\ results[1].address = "0xb"
  /\ MapHas(endBalances, "0xc") /\ ~MapHas(recipientMap, "0xc")

\* what the driver transfers to the account of address a over the rows of the
\* recipient list; the spellings of one address are one account
RECURSIVE DriverTotal(_, _)
DriverTotal(a, csvData) ==
  IF csvData = <<>> THEN 0
  ELSE (IF toLowerCase(Head(csvData).address) = a THEN Head(csvData).amount ELSE 0)
       + DriverTotal(a, Tail(csvData))

\* every row was transferred exactly and the snapshots are accurate
SnapshotsAccurate ==
  \A a \in {toLowerCase(r) : r \in RawAddresses} :
    Default0(endBalances, a)
      = Default0(startBalances, a) + DriverTotal(a, loadCSVData(recipientsFile))

\* C19: the expected amount the reconciliation uses for an address equals the
\* total the driver transfers to that address from the same recipient list,
\* also when the address is in more than one row; hence if every row was
\* transferred exactly and the snapshots are accurate, the reconciliation
\* reports zero mismatches.
C19_ExpectedIsDriverTotal ==
  /\ pc # "load" =>
       \A n \in 1..Len(recipientMap) :
         recipientMap[n].value
           = DriverTotal(recipientMap[n].key, loadCSVData(recipientsFile))
  /\ (pc = "reconciled" /\ SnapshotsAccurate) => report.mismatches = 0

\* the signed sum of end - (start + expected) over the mismatching results
RECURSIVE MismatchSum(_)
MismatchSum(rs) ==
  IF rs = <<>> THEN 0
  ELSE (IF Head(rs).endBalance = Head(rs).startBalance + Head(rs).expectedAmount
        THEN 0
        ELSE Head(rs).endBalance - (Head(rs).startBalance + Head(rs).expectedAmount))
       + MismatchSum(Tail(rs))

\* C20: in the reconciliation report, match count + mismatch count = total
\* result count, and the reported total discrepancy equals the signed sum,
\* over all mismatching results, of end - (start + expected).
C20_ReportTotals ==
  pc = "reconciled" =>
    /\ report.total = Len(results)
    /\ report.matches + report.mismatches = report.total
    /\ report.mismatches = Cardinality({n \in 1..Len(results) : ~results[n].matches})
    /\ report.mismatches > 0 => report.totalDiscrepancy = <<MismatchSum(results)>>
    /\ report.mismatches = 0 => report.totalDiscrepancy = <<>>

C20_Witness ==
  /\ pc = "reconciled"
  /\ report.mismatches = 2
  /\ \E n, m \in 1..Len(results) :
       /\ ~results[n].matches /\ results[n].difference[1] < 0
       /\ ~results[m].matches /\ results[m].difference[1] > 0

\* C21: a reconciliation run whose results contain mismatches still completes:
\* it emits the report, persists one output record per result and does not
\* end with the fatal-error exit; only a load or I/O error (a missing file, a
\* failed write) makes it exit with code 1.
C21_MismatchesNotFatal ==
  /\ [][/\ pc \in {"load", "verifyTransfers", "generateReport"} =>
             (pc' # "exited" /\ exitCode' = <<>>)
        /\ (pc = "reconciled" /\ pc' # pc) =>
             \/ /\ exitCode' = <<0>>
                /\ Len(outputFile') = Len(results)
                /\ \A n \in 1..Len(results) : outputFile'[n].address = results[n].address
                /\ report = generateReport(results)
             \/ exitCode' = <<1>> /\ outputFile' = <<>>
        /\ (exitCode' = <<1>> /\ exitCode = <<>>) =>
             \/ pc = "checkFiles" /\ filesPresent # FileNames
             \/ pc = "reconciled" /\ outputFile' = <<>>]_vars
  /\ [](exitCode = <<0>> => Len(outputFile) = Len(results))

C21_Witness ==
  /\ exitCode = <<0>>
  /\ report.mismatches >= 1 /\ report.matches >= 1
  /\ Len(outputFile) = 2

\* the call left every token balance and the allowance as they were
NothingChanged == bal = before.bal /\ allow = before.allow

\* C22 as stated: a call of bulkSendERC20Different with more recipients than
\* recipientLimit reverts with 'Exceeds recipient limit' and a call with no
\* recipient reverts with 'Empty array', whatever the state of the contract,
\* and no balance or allowance changes.
C22_Unconditional ==
  pc = "called" =>
    /\ Len(callArgs.recipients) > before.recipientLimit =>
         callResult = "BulkSender: Exceeds recipient limit" /\ NothingChanged
    /\ Len(callArgs.recipients) = 0 =>
         callResult = "BulkSender: Empty array" /\ NothingChanged

\* C22: while the contract is not paused, a call of bulkSendERC20Different
\* with more recipients than the current recipientLimit reverts with 'Exceeds
\* recipient limit' and a call with no recipient reverts with 'Empty array';
\* while it is paused the same calls revert with EnforcedPause; in every one
\* of these cases no token balance and no allowance changes.
C22_LimitAndEmptyRejected ==
  pc = "called" =>
    /\ Len(callArgs.recipients) > before.recipientLimit =>
         /\ callResult = IF before.paused THEN "EnforcedPause"
                         ELSE "BulkSender: Exceeds recipient limit"
         /\ NothingChanged
    /\ Len(callArgs.recipients) = 0 =>
         /\ callResult = IF before.paused THEN "EnforcedPause"
                         ELSE "BulkSender: Empty array"
         /\ NothingChanged

\* two funded, well-formed transfers are sent while the limit is 1
C22_Witness ==
  /\ pc = "called"
  /\ ~before.paused
  /\ before.recipientLimit = 1
  /\ callArgs.token = Token
  /\ Len(callArgs.recipients) = 2 /\ Len(callArgs.amounts) = 2
  /\ \A k \in 1..2 : callArgs.recipients[k] # ZeroAddress /\ callArgs.amounts[k] > 0
  /\ before.allow >= SumAmounts(callArgs.amounts)
  /\ before.bal[Sender] >= SumAmounts(callArgs.amounts)
  /\ callResult = "BulkSender: Exceeds recipient limit"

\* the sum of as[k] over the positions k at which rs lists the address r
RECURSIVE SumFor(_, _, _)
SumFor(r, rs, as) ==
  IF rs = <<>> THEN 0
  ELSE (IF Head(rs) = r THEN Head(as) ELSE 0) + SumFor(r, Tail(rs), Tail(as))

ZeroRecipientListed ==
  \E k \in 1..Len(callArgs.recipients) : callArgs.recipients[k] = ZeroAddress

\* the call passes every check that runs before the distribution loop
PassesEarlierChecks ==
  /\ ~before.paused
  /\ Len(callArgs.recipients) \in 1..before.recipientLimit
  /\ Len(callArgs.recipients) = Len(callArgs.amounts)
  /\ \A k \in 1..Len(callArgs.amounts) : callArgs.amounts[k] > 0
  /\ callArgs.token # ZeroAddress
  /\ before.allow >= SumAmounts(callArgs.amounts)
  /\ before.bal[Sender] >= SumAmounts(callArgs.amounts)

\* C24 as stated: a call whose recipient array holds the zero address, at
\* whatever position, reverts with 'Invalid recipient' and changes nothing.
C24_AlwaysInvalidRecipient ==
  (pc = "called" /\ ZeroRecipientListed) =>
    callResult = "BulkSender: Invalid recipient" /\ NothingChanged

\* C24: a call of bulkSendERC20Different whose recipient array holds the zero
\* address, at whatever position, reverts as a whole: no recipient earlier in
\* the array is credited, the sender is not debited and the contract holds
\* no token from the call.  The revert reason is 'Invalid recipient' when the
\* call passes every earlier check (not paused, array length, equal lengths,
\* positive amounts, token address, allowance, balance); otherwise it is the
\* reason of the first earlier check that fails.
C24_ZeroRecipientRevertsWhole ==
  (pc = "called" /\ ZeroRecipientListed) =>
    /\ callResult # ""
    /\ NothingChanged
    /\ bal[BulkSender] = 0
    /\ PassesEarlierChecks <=> callResult = "BulkSender: Invalid recipient"

\* the zero address is listed second, after a recipient that the loop would
\* already have paid
C24_Witness ==
  /\ pc = "called"
  /\ PassesEarlierChecks
  /\ Len(callArgs.recipients) = 2
  /\ callArgs.recipients[1] # ZeroAddress
  /\ callArgs.recipients[2] = ZeroAddress
  /\ callResult = "BulkSender: Invalid recipient"
  /\ bal = before.bal

\* the three argument faults of a call
LengthMismatch == Len(callArgs.recipients) # Len(callArgs.amounts)
ZeroAmountListed == \E k \in 1..Len(callArgs.amounts) : callArgs.amounts[k] = 0
ZeroToken == callArgs.token = ZeroAddress

\* C25 as stated: with no allowance granted, a length mismatch reverts with
\* 'Array length mismatch', a zero entry in amounts with 'Amount must be
\* greater than 0' and a zero token address with 'Invalid token address'.
C25_EachFaultItsReason ==
  (pc = "called" /\ before.allow = 0) =>
    /\ LengthMismatch => callResult = "BulkSender: Array length mismatch"
    /\ ZeroAmountListed => callResult = "BulkSender: Amount must be greater than 0"
    /\ ZeroToken => callResult = "BulkSender: Invalid token address"

\* C25: bulkSendERC20Different checks its arguments before allowance and
\* balance, in a fixed order.  On a contract that is not paused and with a
\* recipient array that is not empty and within recipientLimit, whatever the
\* allowance and in particular with none granted: a length mismatch reverts
\* with 'Array length mismatch'; with equal lengths a zero entry in amounts
\* reverts with 'Amount must be greater than 0'; with equal lengths and
\* positive amounts a zero token address reverts with 'Invalid token address'.
\* A call with any of these faults never reverts with 'Insufficient
\* allowance' or 'Insufficient balance', and it always reverts.
C25_ArgumentChecksInOrder ==
  pc = "called" =>
    /\ (~before.paused /\ Len(callArgs.recipients) \in 1..before.recipientLimit) =>
         /\ LengthMismatch => callResult = "BulkSender: Array length mismatch"
         /\ (~LengthMismatch /\ ZeroAmountListed) =>
              callResult = "BulkSender: Amount must be greater than 0"
         /\ (~LengthMismatch /\ ~ZeroAmountListed /\ ZeroToken) =>
              callResult = "BulkSender: Invalid token address"
    /\ (LengthMismatch \/ ZeroAmountListed \/ ZeroToken) =>
         /\ callResult \notin {"", "BulkSender: Insufficient allowance",
                                "BulkSender: Insufficient balance"}
         /\ NothingChanged

\* no allowance was granted and the only fault is the zero token address
C25_Witness ==
  /\ pc = "called"
  /\ before.allow = 0 /\ ~before.paused
  /\ ZeroToken /\ ~LengthMismatch /\ ~ZeroAmountListed
  /\ Len(callArgs.recipients) = 2
  /\ callResult = "BulkSender: Invalid token address"

\* the distinct addresses of a list of transfers
DistinctRecipients(entries) == {entries[k].address : k \in 1..Len(entries)}

C28_RoundTripAndRejection ==
  pc \in {"parsed", "threw"} =>
    /\ \A r \in Rendered : r.string = amountString => (pc = "parsed" /\ parsed = <<r.n>>)
    /\ (\E k \in 1..Len(amountString) : amountString[k] \in {"e", "-", "."}) =>
         (pc = "threw" /\ parsed = <<>>)

\* a rendering with two separators and a zero-padded group was parsed
C28_Witness ==
  /\ pc = "parsed"
  /\ amountString = <<"7", ",", "0", "4", "5", ",", "0", "0", "7">>
  /\ parsed = <<7045007>>

\* the faults of a row of the transfer list
MissingColumn(row) == trim(row.address) = <<>> \/ trim(row.amount) = <<>>
BadAddress(row) == ~IsAddress(trim(row.address))
MalformedAmount(row) == parseWeiAmount(trim(row.amount)) = <<>>
NotPositive(row) == ~MalformedAmount(row) /\ parseWeiAmount(trim(row.amount))[1] <= 0
BadRow(row) ==
  MissingColumn(row) \/ BadAddress(row) \/ MalformedAmount(row) \/ NotPositive(row)
BadRows == {k \in 1..Len(csvRows) : BadRow(csvRows[k])}

\* C27: loading the transfer list is all-or-nothing.  If any row has a
\* missing column, a first column that is not 0x followed by 40 hex digits,
\* a malformed amount or an amount <= 0, loadCSVData fails at the first such
\* row and returns no entries, and a list without such a row is returned
\* whole, one entry per row; in the bulk-transfer script the failure ends the
\* run with exit code 1 before any request to the node and any write.
C27_LoadAllOrNothing ==
  /\ [][(pc = "loadCSVData" /\ pc' # pc) =>
          /\ (csvPresent /\ BadRows # {}) =>
               /\ loaded'.reason # "" /\ loaded'.entries = <<>>
               /\ \A k \in BadRows : loaded'.row <= k
               /\ loaded'.row \in BadRows
               /\ pc' = "failed" /\ exitCode' = <<1>>
               /\ rpcCalls' = 0 /\ writes' = <<>>
          /\ (csvPresent /\ BadRows = {}) =>
               /\ loaded'.reason = "" /\ Len(loaded'.entries) = Len(csvRows)
               /\ \A k \in 1..Len(csvRows) :
                    /\ loaded'.entries[k].address = trim(csvRows[k].address)
                    /\ <<loaded'.entries[k].amount>> = parseWeiAmount(csvRows[k].amount)
               /\ pc' = "getContractInstances"]_vars
  /\ [](rpcCalls > 0 => (loaded.reason = "" /\ exitCode = <<>>))
  /\ [](pc = "failed" => (loaded.entries = <<>> /\ rpcCalls = 0 /\ writes = <<>>))

\* the first row is good, the second has an amount that is not positive: the
\* load failed at row 2 and returned nothing
C27_Witness ==
  /\ pc = "failed"
  /\ Len(csvRows) = 2
  /\ ~BadRow(csvRows[1])
  /\ NotPositive(csvRows[2]) /\ ~BadAddress(csvRows[2])
  /\ loaded.row = 2 /\ loaded.reason = "Amount must be positive"
  /\ loaded.entries = <<>>
  /\ exitCode = <<1>> /\ rpcCalls = 0

\* C29: any error raised by the guard or by a batch leaves
\* processTransferBatches: no later step runs and the run ends with exit code
\* 1; the completion message and exit code 0 occur only when the loop has
\* gone through every batch and every batch finished all its steps.
C29_ErrorsEndRunWithExitCodeOne ==
  /\ [][/\ (error' # error \/ failedStep' # failedStep \/ failedBatch' # failedBatch) =>
             (pc' = "failed" /\ processExitCode' = <<1>>)
        /\ pc = "failed" => (pc' = "failed" /\ writes' = writes /\ bal' = bal)
        /\ (pc' = "done" /\ pc # "done") =>
             (pc = "nextBatch" /\ batchNumber = Len(batches))]_vars
  /\ [](pc = "failed" => (error # "" /\ processExitCode = <<1>>))
  /\ [](processExitCode = <<0>> =>
          /\ error = "" /\ failedBatch = 0
          /\ batchNumber = Len(batches)
          /\ verified = 1..Len(batches))
  /\ [](processExitCode = <<>> => Running)

\* the first batch went through, an error of the second batch ended the run
C29_Witness ==
  /\ pc = "failed"
  /\ failedBatch = 2 /\ 1 \in verified
  /\ processExitCode = <<1>>

\* every recipient holds what it held at the start plus the amounts of all
\* its rows of the batch, and the sender holds that much less
AppliedExactly ==
  /\ \A r \in Recipients : bal[r] = startBal[r] + ListedFor(r, batches[1])
  /\ bal[Sender] = startBal[Sender] - SumAmounts(AmountsOf(batches[1]))
  /\ bal[BulkSender] = startBal[BulkSender]

\* C30: if a batch is applied exactly as intended (each recipients[i] is
\* credited amounts[i] and nothing else changes balances), the sampling
\* verification of that batch does not fail, whichever indexes were sampled
\* and also when the same address occurs at more than one index.
C30_AppliedBatchVerifies ==
  (batchNumber = 1 /\ envActs = 1 /\ AppliedExactly) => pc # "failed"

\* the sum of the amounts of batches k..n
RemainingFrom(k) == SumAmounts(AmountsOf(Flat(SubSeq(batches, k, Len(batches)))))

\* processSingleBatch has just been entered for batch batchNumber
AtBatchStart ==
  /\ batchNumber > 0
  /\ pc = BatchEntry(driver)
  /\ selected = <<>> /\ verificationData = <<>>

\* C31: after the guard has succeeded, with a standard ERC20 token and no
\* step of any other account, at the start of every batch k the allowance of
\* the sender to BulkSender and the balance of the sender are each at least
\* the sum of the amounts of batches k..n; no batch fails with 'Insufficient
\* allowance' or 'Insufficient balance' and no bulk transaction is mined as
\* reverted.
C31_AllowanceAndBalanceCoverRemaining ==
  (standardToken /\ envActs = 0) =>
    /\ AtBatchStart =>
         /\ allow >= RemainingFrom(batchNumber)
         /\ bal[Sender] >= RemainingFrom(batchNumber)
    /\ pc = "nextBatch" =>
         /\ allow >= RemainingFrom(batchNumber + 1)
         /\ bal[Sender] >= RemainingFrom(batchNumber + 1)
    /\ error \notin {"BulkSender: Insufficient allowance",
                      "BulkSender: Insufficient balance"}
    /\ \A n \in 1..Len(receipts) : writes[n].kind = "bulk" => receipts[n] = "success"

\* the second batch starts after the guard approved the total and the
\* transaction of the first batch has used its part of the allowance
C31_Witness ==
  /\ standardToken /\ envActs = 0
  /\ AtBatchStart /\ batchNumber = 2
  /\ \E n \in 1..Len(writes) : writes[n].kind = "approve" /\ writes[n].amount > 0
  /\ \E n \in 1..Len(receipts) : writes[n].kind = "bulk" /\ receipts[n] = "success"
  /\ allow = RemainingFrom(2)

LastWasBulkSend ==
  /\ pc = "returned"
  /\ callArgs.fn \in {"bulkSendERC20Different", "bulkSendERC20Equal"}

OwnerSetLimit ==
  /\ callArgs.fn = "setRecipientLimit"
  /\ callArgs.caller = Owner
  /\ callArgs.newLimit > 0

\* C34: recipientLimit is above 0 in every reachable state of the contract.
\* It starts at 200 and changes only through a successful setRecipientLimit
\* call by the owner, after which getRecipientLimit returns the value that
\* was set; a call by a non-owner or with 0 reverts and leaves it unchanged.
C34_RecipientLimitPositive ==
  /\ recipientLimit = 200
  /\ [](/\ recipientLimit > 0
        /\ pc = "returned" =>
             /\ OwnerSetLimit =>
                  /\ callResult = ""
                  /\ recipientLimit = callArgs.newLimit
                  /\ getRecipientLimit = callArgs.newLimit
             /\ ~OwnerSetLimit => recipientLimit = before.recipientLimit
             /\ (callArgs.fn = "setRecipientLimit" /\ ~OwnerSetLimit) => callResult # "")

\* the owner has lowered a limit set earlier, after a non-owner call and a
\* call with 0 had been tried
C34_Witness ==
  /\ pc = "returned" /\ OwnerSetLimit /\ callResult = ""
  /\ before.recipientLimit = 2
  /\ recipientLimit = 1
  /\ getRecipientLimit = 1

\* the amount the last bulk send asked the contract to pull from the sender
RequestedTotal ==
  IF callArgs.fn = "bulkSendERC20Different" THEN SumAmounts(callArgs.amounts)
  ELSE callArgs.amount * Len(callArgs.recipients)

\* the arguments and the state before the last bulk send meet every
\* requirement other than the pause
AcceptedWhenOpen ==
  /\ Len(callArgs.recipients) \in 1..before.recipientLimit
  /\ callArgs.fn = "bulkSendERC20Different" =>
       /\ Len(callArgs.recipients) = Len(callArgs.amounts)
       /\ \A k \in 1..Len(callArgs.amounts) : callArgs.amounts[k] > 0
  /\ callArgs.fn = "bulkSendERC20Equal" => callArgs.amount > 0
  /\ callArgs.token # ZeroAddress
  /\ before.allow >= RequestedTotal
  /\ before.bal[Sender] >= RequestedTotal
  /\ \A k \in 1..Len(callArgs.recipients) : callArgs.recipients[k] # ZeroAddress

\* C35: while the contract is paused every bulk send entry point reverts and
\* changes no balance; only the owner changes the paused state; once the
\* owner has unpaused, a bulk send succeeds exactly when its arguments,
\* allowance and balance allow it, as before the pause.
C35_PausedBlocksBulkSends ==
  pc = "returned" =>
    /\ (LastWasBulkSend /\ before.paused) =>
         /\ callResult = "EnforcedPause"
         /\ bal = before.bal
         /\ allow = before.allow
    /\ paused # before.paused =>
         /\ callArgs.fn = "setPaused"
         /\ callArgs.caller = Owner
         /\ paused = callArgs.paused
    /\ (callArgs.fn = "setPaused" /\ callArgs.caller # Owner) =>
         /\ callResult = "OwnableUnauthorizedAccount"
         /\ paused = before.paused
    /\ (LastWasBulkSend /\ ~before.paused) =>
         /\ callResult = "" <=> AcceptedWhenOpen
         /\ callResult = "" => bal[Sender] = before.bal[Sender] - RequestedTotal

\* a bulkSendERC20Equal that every other requirement would let through is
\* sent while the contract is paused
C35_Witness ==
  /\ LastWasBulkSend /\ callArgs.fn = "bulkSendERC20Equal"
  /\ before.paused
  /\ AcceptedWhenOpen
  /\ Len(callArgs.recipients) = 2
  /\ callResult = "EnforcedPause"
  /\ bal = before.bal

\* the entries whose read has returned or thrown
ReadEntries == {readLog[n].entry : n \in 1..Len(readLog)}

\* C36: in the balance-checking script the reads of one batch are in flight
\* together, the results hold exactly one result per input entry in input
\* order whatever the order in which the reads complete, and the reads of a
\* batch are issued only after every read of the batch before it has
\* completed.
C36_ResultsInInputOrder ==
  /\ pc = "awaitAll" =>
       /\ Len(promises) = Len(batches[batchIndex + 1])
       /\ \A i \in 1..(batchIndex * checkBatchSize) : i \in ReadEntries
       /\ \A n \in 1..Len(readLog) : readLog[n].batch <= batchIndex
       /\ Len(balanceResults) = batchIndex * checkBatchSize
  /\ pc = "checked" =>
       /\ Len(balanceResults) = Len(csvEntries)
       /\ Len(readLog) = Len(csvEntries)
       /\ ReadEntries = 1..Len(csvEntries)
       /\ \A i \in 1..Len(csvEntries) :
            /\ balanceResults[i].address = csvEntries[i].address
            /\ balanceResults[i].expectedAmount = csvEntries[i].expectedAmount
            /\ \E n \in 1..Len(readLog) :
                 /\ readLog[n].entry = i
                 /\ balanceResults[i].actualBalance =
                      IF readLog[n].ok THEN bal[csvEntries[i].address] ELSE 0

\* three entries in batches of two; the two reads of the first batch have
\* completed in reverse order and the results still follow the input
C36_Witness ==
  /\ pc = "checked"
  /\ Len(csvEntries) = 3 /\ checkBatchSize = 2
  /\ csvEntries[1].address # csvEntries[2].address
  /\ readLog[1].entry = 2 /\ readLog[2].entry = 1 /\ readLog[3].entry = 3
  /\ \A n \in 1..3 : readLog[n].ok
  /\ bal[csvEntries[1].address] # bal[csvEntries[2].address]
  /\ \A i \in 1..3 : balanceResults[i].actualBalance = bal[csvEntries[i].address]

\* C37: a result of the balance-checking script has matches = true only if
\* the balance read for its address succeeded and returned exactly
\* expectedAmount; a failed read is never reported as a match.
C37_MatchOnlyOnSuccessfulRead ==
  \A i \in 1..Len(balanceResults) :
    balanceResults[i].matches =>
      \E n \in 1..Len(readLog) :
        /\ readLog[n].entry = i
        /\ readLog[n].ok
        /\ bal[balanceResults[i].address] = balanceResults[i].expectedAmount

\* two spellings of one address: equal up to the case of the hex letters
SameAddress(a, b) == a = b \/ {a, b} = {"0xa", "0xA"} \/ {a, b} = {"0xc", "0xC"}

\* the balance a snapshot file lists for the address, 0 when it lists none
SnapshotBalance(rows, a) ==
  IF \E n \in 1..Len(rows) : SameAddress(rows[n].address, a)
  THEN rows[CHOOSE n \in 1..Len(rows) : SameAddress(rows[n].address, a)].value
  ELSE 0

\* the keys of a loaded Map
Keys(map) == {map[n].key : n \in 1..Len(map)}

\* C38: the reconciliation compares addresses without regard to letter case.
\* The keys of the start, end and expected maps are lowercase, every row of
\* the recipient list has its result, and the start and end balance of a
\* result are the ones the snapshots list for that address in whatever
\* spelling, not the default 0.
C38_CaseInsensitiveLookup ==
  pc \in {"generateReport", "reconciled"} =>
    /\ \A k \in Keys(startBalances) \cup Keys(endBalances) \cup Keys(recipientMap) :
         k \notin {"0xA", "0xC"}
    /\ \A m \in 1..Len(recipientsFile) :
         \E n \in 1..Len(results) : SameAddress(results[n].address, recipientsFile[m].address)
    /\ \A n \in 1..Len(results) :
         /\ results[n].startBalance = SnapshotBalance(startFile, results[n].address)
         /\ results[n].endBalance = SnapshotBalance(Tail(endFile), results[n].address)

\* the recipient list spells the address 0xa, the start snapshot 0xA with a
\* balance above 0, and the result carries that balance
C38_Witness ==
  /\ pc = "generateReport"
  /\ Len(recipientsFile) = 1 /\ recipientsFile[1].address = "0xa"
  /\ \E n \in 1..Len(startFile) :
       startFile[n].address = "0xA" /\ startFile[n].value = MaxSnapshot
  /\ Len(results) = 1
  /\ results[1].startBalance = MaxSnapshot
  /\ results[1].startBalance > 0

====
